---- MODULE Spec2Model ----
(***************************************************************************)
(* SessionRateLimiter of jimeng-api (src/lib/session-rate-limiter.ts).     *)
(*                                                                         *)
(* Time is kept relative to Date.now(): every timestamp of the source is   *)
(* stored as its distance to the current instant (a countdown for a        *)
(* deadline or timer, an age for lastStartedAt).  Tick advances the clock  *)
(* by one unit.  A timer fires at the instant it is due: Tick is disabled  *)
(* while a timer is due or a continuation is runnable.  Timers due at the  *)
(* same instant fire in any order.  redis.eval answers (or rejects) within *)
(* the instant it is called.                                               *)
(***************************************************************************)
EXTENDS Integers, Sequences, FiniteSets, TLC

\* Number of acquire() calls that can be outstanding at once.
MaxCalls == 3
Calls == 1..MaxCalls

\* Number of async tasks submitted.
MaxTasks == 2
Tasks == 1..MaxTasks

\* Credentials (non-empty sessionId values) the callers use.
Creds == {"a", "b"}
\* The credential of the single-credential specifications.
Primary == {"a"}

\* Configuration read by the constructor.  One clock unit stands for 5000 ms; the
\* values are those of SESSION_MAX_CONCURRENT=2, SESSION_MIN_INTERVAL_MS=5000,
\* SESSION_MAX_QUEUE_PER_SESSION=2, SESSION_QUEUE_TIMEOUT_MS=10000,
\* SESSION_INFLIGHT_TTL_MS=10000, SESSION_REDIS_POLL_INTERVAL_MS=5000, which pass
\* the constructor's clamps unchanged.
MaxConcurrent == 2
MinIntervalMs == 1
MaxQueuePerSession == 2
QueueTimeoutMs == 2
InflightTtlMs == 2
RedisPollIntervalMs == 1
\* Longest time client.connect() takes before it resolves or rejects
\* (retryStrategy gives up after its last retry).
ConnectMaxMs == 1
\* Math.floor(Math.random() * 40) added to the poll interval: below one clock unit.
MaxJitter == 0

NoTimer == -1
\* Value of sid for a caller that has no acquire() call or release closure.
NoSid == CHOOSE s \in Primary : TRUE

Max(a, b) == IF a >= b THEN a ELSE b
Min(a, b) == IF a <= b THEN a ELSE b

VARIABLES
    enabled,              \* this.enabled
    useRedisDistributed,  \* this.useRedisDistributed
    redis,                \* this.redis: "null" or "client"
    initWaiters,          \* callers awaiting this.redisInitPromise, in await order
    connecting,           \* client.connect() calls that have not settled
    buckets,              \* this.buckets: credential -> SessionBucket
    inflight,             \* Redis inflight key per credential: <<>> (absent) or <<n>>
    inflightPttl,         \* remaining TTL of the inflight key
    nextAllowedIn,        \* Redis interval key: max(0, nextAllowedAt - now)
    pc,                   \* position of each acquire() call
    sid,                  \* sessionId argument of each call
    left,                 \* deadlineAt - now (distributed) / waiter.timeoutHandle (local)
    sleep,                \* remaining this.sleep(ms) of the distributed loop
    err,                  \* error the call was rejected with
    elapsed,              \* time since acquire() was called, while it is unsettled
    sinceLocalGrant,      \* time since the last local grant of a credential
    sinceDistGrant,       \* time since the nowMs of the last granting script run
    taskStore,            \* TaskStore: task id -> record (status, result, error)
    writes,               \* how often result and error of a record were written
    work,                 \* position of the queue / the work function per task
    running,              \* TaskQueue: units of work holding a worker slot
    cancelSeen,           \* status read by a cancel request that has not written yet
    cancelOk,             \* a cancel request for the task has reported success
    callback,             \* callback_url of the task: "none", or how its endpoint answers
    posts,                \* webhook POSTs made for the task
    genCalls,             \* calls of generateVideo made for the submission
    resp,                 \* answer of POST /v1/videos/generations to the submission
    hookPc,               \* position of one webhook dispatch
    answers,              \* what the endpoint answered to the POSTs of the dispatch
    hookWait,             \* remaining delay before the next POST
    sincePost,            \* time since the last POST of the dispatch
    record,               \* the admission record of one credential, with both TTLs
    reply,                \* reason returned by the last script run on the record
    holders,              \* grants on the record whose release has not run
    sent,                 \* record the work function passed to sendWebhook, per task
    retryPc,              \* position of one axiosWithRetry call
    options,              \* its options argument
    retries,              \* its local variable retries
    opCalls,              \* calls of operation() it has made
    lastError,            \* error the last call of operation() rejected with
    retrySleep,           \* remaining sleep(retryDelayMs)
    waited,               \* time since the last call of operation() rejected
    outcome               \* what axiosWithRetry returned or threw

limiterVars == <<enabled, useRedisDistributed, redis, initWaiters, connecting, buckets, inflight,
                 inflightPttl, nextAllowedIn, pc, sid, left, sleep, err, elapsed,
                 sinceLocalGrant, sinceDistGrant>>

taskVars == <<taskStore, writes, work, running, cancelSeen, cancelOk, callback, posts,
              genCalls, resp>>

hookVars == <<hookPc, answers, hookWait, sincePost>>

scriptVars == <<record, reply, holders>>

retryVars == <<retryPc, options, retries, opCalls, lastError, retrySleep, waited, outcome>>

auxVars == <<scriptVars, sent, retryVars>>

vars == <<limiterVars, taskVars, hookVars, auxVars>>

redisVars == <<inflight, inflightPttl, nextAllowedIn, sinceDistGrant>>
config == <<enabled, useRedisDistributed>>

Pending == {"awaitClient", "dist", "queued"}

------------------------------------------------------------------------------
\* Local mode

\* getBucket: the SessionBucket created for a credential that has none.
\* lastStartedAt = 0 lies further back than minIntervalMs.
NewBucket ==
    [active |-> 0, age |-> MinIntervalMs, queue |-> <<>>, timer |-> NoTimer]

\* this.buckets holds <<>> for a credential without a bucket, <<b>> otherwise.
GetBucket(bs, s) == IF bs[s] # <<>> THEN bs[s][1] ELSE NewBucket

\* Mutant of CleanupBucket: this.buckets.delete is never reached.
CleanupBucketKeeps(st) == st

\* st = [b: the bucket object, gone: deleted from this.buckets,
\*       granted: waiters resolved with a release]
CleanupBucket(st) ==
    IF st.b.active > 0 THEN st
    ELSE IF Len(st.b.queue) > 0 THEN st
    ELSE IF st.b.timer # NoTimer THEN st
    ELSE [st EXCEPT !.gone = TRUE]

RECURSIVE ProcessQueue(_)
ProcessQueue(st) ==
    IF st.b.active >= MaxConcurrent THEN st
    ELSE IF Len(st.b.queue) = 0 THEN CleanupBucket(st)
    ELSE LET waitMs == Max(0, MinIntervalMs - st.b.age) IN
         IF waitMs > 0
         THEN IF st.b.timer = NoTimer THEN [st EXCEPT !.b.timer = waitMs] ELSE st
         ELSE LET waiter == Head(st.b.queue)
                  st2 == [st EXCEPT !.b.queue = Tail(@),
                                    !.b.active = @ + 1,
                                    !.b.age = 0,
                                    !.granted = Append(@, waiter)]
              IN IF st2.b.active < MaxConcurrent THEN ProcessQueue(st2) ELSE st2

Start(b) == [b |-> b, gone |-> FALSE, granted |-> <<>>]

InSeq(x, q) == \E i \in 1..Len(q) : q[i] = x

Without(q, x) == SelectSeq(q, LAMBDA y : y # x)

\* The local part of the state, threaded through the synchronous routines.
Local == [buckets |-> buckets, pc |-> pc, left |-> left, err |-> err,
          since |-> sinceLocalGrant]

\* Write back the bucket after a synchronous routine, resolve the granted waiters
\* (clearTimeout, waiter.resolve).
Settle(ls, s, st) ==
    [ls EXCEPT
       !.buckets[s] = IF st.gone THEN <<>> ELSE <<st.b>>,
       !.pc = [c \in Calls |-> IF InSeq(c, st.granted) THEN "heldLocal" ELSE ls.pc[c]],
       !.left = [c \in Calls |-> IF InSeq(c, st.granted) THEN 0 ELSE ls.left[c]],
       !.since = [x \in Creds |-> IF x = s /\ Len(st.granted) > 0 THEN 0
                                  ELSE ls.since[x]]]

\* Mutant of AcquireLocal: the capacity check counts the waiters of all buckets.
AcquireLocalGlobalLimit(ls, c, s) ==
    LET bucket == GetBucket(ls.buckets, s)
        other == CHOOSE x \in Creds : x # s
    IN IF Len(bucket.queue) + Len(GetBucket(ls.buckets, other).queue)
            >= MaxQueuePerSession
       THEN [Settle(ls, s, Start(bucket)) EXCEPT !.pc[c] = "failed", !.err[c] = "overflow"]
       ELSE LET queued == [ls EXCEPT !.pc[c] = "queued", !.left[c] = QueueTimeoutMs]
                pushed == [bucket EXCEPT !.queue = Append(@, c)]
            IN Settle(queued, s, ProcessQueue(Start(pushed)))

\* Mutant of AcquireLocal: the waiter is put at the front of the queue
\* (queue.unshift).
AcquireLocalUnshift(ls, c, s) ==
    LET bucket == GetBucket(ls.buckets, s)
    IN IF Len(bucket.queue) >= MaxQueuePerSession
       THEN [Settle(ls, s, Start(bucket)) EXCEPT !.pc[c] = "failed", !.err[c] = "overflow"]
       ELSE LET queued == [ls EXCEPT !.pc[c] = "queued", !.left[c] = QueueTimeoutMs]
                pushed == [bucket EXCEPT !.queue = <<c>> \o @]
            IN Settle(queued, s, ProcessQueue(Start(pushed)))

\* Mutant of AcquireLocal: the capacity check is missing.
AcquireLocalNoLimit(ls, c, s) ==
    LET bucket == GetBucket(ls.buckets, s)
        queued == [ls EXCEPT !.pc[c] = "queued", !.left[c] = QueueTimeoutMs]
        pushed == [bucket EXCEPT !.queue = Append(@, c)]
    IN Settle(queued, s, ProcessQueue(Start(pushed)))

\* acquireLocal
AcquireLocal(ls, c, s) ==
    LET bucket == GetBucket(ls.buckets, s)
    IN IF Len(bucket.queue) >= MaxQueuePerSession
       THEN [Settle(ls, s, Start(bucket)) EXCEPT !.pc[c] = "failed", !.err[c] = "overflow"]
       ELSE LET queued == [ls EXCEPT !.pc[c] = "queued", !.left[c] = QueueTimeoutMs]
                pushed == [bucket EXCEPT !.queue = Append(@, c)]
            IN Settle(queued, s, ProcessQueue(Start(pushed)))

IndexOf(q, x) == CHOOSE i \in 1..Len(q) : q[i] = x

\* Mutant of WaiterTimeoutOp: queue.splice(index) instead of queue.splice(index, 1).
WaiterTimeoutSpliceToEnd(ls, c) ==
    LET s == sid[c]
        bucket == ls.buckets[s][1]
        spliced == [bucket EXCEPT !.queue = SubSeq(@, 1, IndexOf(@, c) - 1)]
        rejected == [ls EXCEPT !.pc[c] = "failed", !.err[c] = "timeout"]
    IN Settle(rejected, s, CleanupBucket(Start(spliced)))

\* Mutant of WaiterTimeoutOp: the waiter is rejected and stays in the queue.
WaiterTimeoutKeepsWaiter(ls, c) ==
    LET s == sid[c]
        bucket == ls.buckets[s][1]
        rejected == [ls EXCEPT !.pc[c] = "failed", !.err[c] = "timeout"]
    IN Settle(rejected, s, CleanupBucket(Start(bucket)))

\* The setTimeout callback of acquireLocal.
WaiterTimeoutOp(ls, c) ==
    LET s == sid[c]
        bucket == ls.buckets[s][1]
        spliced == [bucket EXCEPT !.queue = Without(@, c)]
        rejected == [ls EXCEPT !.pc[c] = "failed", !.err[c] = "timeout"]
    IN Settle(rejected, s, CleanupBucket(Start(spliced)))

\* Mutant of ReleaseOp: release() does not call processQueue.
ReleaseOpNoProcess(ls, c) ==
    LET s == sid[c]
        bucket == ls.buckets[s][1]
        dec == [bucket EXCEPT !.active = Max(0, @ - 1)]
        done == [ls EXCEPT !.pc[c] = "idle"]
    IN Settle(done, s, CleanupBucket(Start(dec)))

\* Mutant of ReleaseOp: release() does not decrement bucket.active.
ReleaseOpKeepsActive(ls, c) ==
    LET s == sid[c]
        bucket == ls.buckets[s][1]
        done == [ls EXCEPT !.pc[c] = "idle"]
    IN Settle(done, s, CleanupBucket(ProcessQueue(Start(bucket))))

\* The release closure built by processQueue.
ReleaseOp(ls, c) ==
    LET s == sid[c]
        bucket == ls.buckets[s][1]
        dec == [bucket EXCEPT !.active = Max(0, @ - 1)]
        done == [ls EXCEPT !.pc[c] = "idle"]
    IN Settle(done, s, CleanupBucket(ProcessQueue(Start(dec))))

\* Mutant of RetryTimerOp: the callback clears bucket.timer and does not call
\* processQueue.
RetryTimerOpNoProcess(ls, s) ==
    LET bucket == ls.buckets[s][1]
        cleared == [bucket EXCEPT !.timer = NoTimer]
    IN Settle(ls, s, Start(cleared))

\* The setTimeout callback of processQueue.
RetryTimerOp(ls, s) ==
    LET bucket == ls.buckets[s][1]
        cleared == [bucket EXCEPT !.timer = NoTimer]
    IN Settle(ls, s, ProcessQueue(Start(cleared)))

RECURSIVE AcquireLocalAll(_, _)
AcquireLocalAll(ls, q) ==
    IF q = <<>> THEN ls
    ELSE AcquireLocalAll(AcquireLocal(ls, Head(q), sid[Head(q)]), Tail(q))

SetLocal(ls) ==
    /\ buckets' = ls.buckets
    /\ pc' = ls.pc
    /\ left' = ls.left
    /\ err' = ls.err
    /\ sinceLocalGrant' = ls.since

------------------------------------------------------------------------------
\* Distributed mode

Get(key) == IF key = <<>> THEN 0 ELSE key[1]

\* Mutant of AcquireScript: the test of nextAllowedAt is missing.
AcquireScriptNoInterval(s) ==
    IF Get(inflight[s]) >= MaxConcurrent
    THEN [granted |-> 0, reason |-> "concurrency", waitMs |-> 0,
          inflight |-> inflight[s], pttl |-> inflightPttl[s], next |-> nextAllowedIn[s]]
    ELSE [granted |-> 1, reason |-> "ok", waitMs |-> 0,
          inflight |-> <<Get(inflight[s]) + 1>>, pttl |-> InflightTtlMs,
          next |-> MinIntervalMs]

\* REDIS_ACQUIRE_SCRIPT, run with nowMs = the current instant.
AcquireScript(s) ==
    IF Get(inflight[s]) >= MaxConcurrent
    THEN [granted |-> 0, reason |-> "concurrency", waitMs |-> 0,
          inflight |-> inflight[s], pttl |-> inflightPttl[s], next |-> nextAllowedIn[s]]
    ELSE IF nextAllowedIn[s] > 0
    THEN [granted |-> 0, reason |-> "interval", waitMs |-> nextAllowedIn[s],
          inflight |-> inflight[s], pttl |-> inflightPttl[s], next |-> nextAllowedIn[s]]
    ELSE [granted |-> 1, reason |-> "ok", waitMs |-> 0,
          inflight |-> <<Get(inflight[s]) + 1>>, pttl |-> InflightTtlMs,
          next |-> MinIntervalMs]

\* Mutant of ReleaseScript: DECR without the inflight <= 1 branch.
ReleaseScriptAlwaysDecr(s) ==
    [inflight |-> <<Get(inflight[s]) - 1>>, pttl |-> inflightPttl[s]]

\* REDIS_RELEASE_SCRIPT
ReleaseScript(s) ==
    IF Get(inflight[s]) <= 1
    THEN [inflight |-> <<>>, pttl |-> 0]
    ELSE [inflight |-> <<Get(inflight[s]) - 1>>, pttl |-> inflightPttl[s]]

------------------------------------------------------------------------------
\* Async tasks: TaskStore, TaskQueue, the cancel request and the work function of
\* POST /v1/videos/generations.  Every TaskStore call is a suspension point: it
\* takes effect in a step of its own, and other requests run between two calls.

\* Global concurrency bound of the TaskQueue.
QueueConcurrency == 1

\* A task id the store has no record for.
NoTask == [status |-> "absent", result |-> "unset", error |-> "unset"]

\* TaskStore.create: a record with status pending.
Create == [status |-> "pending", result |-> "unset", error |-> "unset"]

\* TaskStore.update: the given fields are merged into the record.
Update(rec, partial) ==
    [f \in DOMAIN rec |-> IF f \in DOMAIN partial THEN partial[f] ELSE rec[f]]

------------------------------------------------------------------------------
\* The admission record of a credential as the two scripts see it: the inflight
\* key and the interval key, each with its remaining TTL.  next is
\* max(0, nextAllowedAt - now) of a stored interval key.

\* intervalTtlMs of acquireDistributed: Math.max(minIntervalMs * 50, 60000), in
\* clock units of 5000 ms.
IntervalTtlMs == Max(MinIntervalMs * 50, 12)

\* Neither key is stored.
NoRecord == [inflight |-> <<>>, pttl |-> 0, next |-> 0, nextPttl |-> 0]

\* Mutant of EvalAcquire: PEXPIRE of the inflight key runs before the checks.
EvalAcquireExpireFirst(rec) ==
    LET touched == IF rec.inflight = <<>> THEN rec
                   ELSE [rec EXCEPT !.pttl = InflightTtlMs]
    IN IF Get(rec.inflight) >= MaxConcurrent
       THEN [granted |-> 0, reason |-> "concurrency", waitMs |-> 0, rec |-> touched]
       ELSE IF rec.next > 0
       THEN [granted |-> 0, reason |-> "interval", waitMs |-> rec.next, rec |-> touched]
       ELSE [granted |-> 1, reason |-> "ok", waitMs |-> 0,
             rec |-> [inflight |-> <<Get(rec.inflight) + 1>>, pttl |-> InflightTtlMs,
                      next |-> MinIntervalMs, nextPttl |-> IntervalTtlMs]]

\* REDIS_ACQUIRE_SCRIPT on the whole record, run with nowMs = the current instant.
EvalAcquire(rec) ==
    IF Get(rec.inflight) >= MaxConcurrent
    THEN [granted |-> 0, reason |-> "concurrency", waitMs |-> 0, rec |-> rec]
    ELSE IF rec.next > 0
    THEN [granted |-> 0, reason |-> "interval", waitMs |-> rec.next, rec |-> rec]
    ELSE [granted |-> 1, reason |-> "ok", waitMs |-> 0,
          rec |-> [inflight |-> <<Get(rec.inflight) + 1>>, pttl |-> InflightTtlMs,
                   next |-> MinIntervalMs, nextPttl |-> IntervalTtlMs]]

\* REDIS_RELEASE_SCRIPT on the whole record.
EvalRelease(rec) ==
    IF Get(rec.inflight) <= 1
    THEN [rec EXCEPT !.inflight = <<>>, !.pttl = 0]
    ELSE [rec EXCEPT !.inflight = <<Get(rec.inflight) - 1>>]

\* Redis after one clock unit: a key whose TTL ran out is dropped.
Expire(rec) ==
    [inflight |-> IF rec.pttl <= 1 THEN <<>> ELSE rec.inflight,
     pttl |-> Max(0, rec.pttl - 1),
     next |-> Max(0, rec.next - 1),
     nextPttl |-> Max(0, rec.nextPttl - 1)]

------------------------------------------------------------------------------
\* axiosWithRetry of the uploader (src/unnamed/part_002).  One unit of time is
\* 5000 ms.

DEFAULT_RETRY_DELAY_MS == 1
DEFAULT_MAX_RETRIES == 3

\* An option that is not given (undefined).
Undefined == -1

NoOptions == [maxRetries |-> Undefined, retryDelayMs |-> Undefined]

\* The options argument: absent, as at the three call sites, or with either field.
OptionSets == [maxRetries : {Undefined, 0, 1}, retryDelayMs : {Undefined, 2}]

\* options?.maxRetries ?? DEFAULT_MAX_RETRIES
MaxRetriesOf(o) == IF o.maxRetries = Undefined THEN DEFAULT_MAX_RETRIES ELSE o.maxRetries

\* options?.retryDelayMs ?? DEFAULT_RETRY_DELAY_MS
RetryDelayOf(o) ==
    IF o.retryDelayMs = Undefined THEN DEFAULT_RETRY_DELAY_MS ELSE o.retryDelayMs

RETRYABLE_ERROR_CODES ==
    {"ECONNABORTED", "ETIMEDOUT", "ECONNRESET", "ENOTFOUND", "ECONNREFUSED",
     "EAI_AGAIN", "EPIPE", "ENETUNREACH", "EHOSTUNREACH"}

\* The substrings isRetryableNetworkError looks for in error.message.
RetryableFragments ==
    {"timeout", "network", "ECONNRESET", "socket hang up", "wrong version number",
     "Client network socket disconnected", "Proxy connection"}

\* An error is its code ("" when it has none) and the set of substrings, of those
\* a message is searched for here, that its message contains.
NoError == [code |-> "", contains |-> {}]

\* Errors operation() rejects with: axios timeouts and socket errors, an error of
\* the request itself, an error without code whose message names the cause.
Errors ==
    [code : {"ECONNABORTED", "ECONNRESET", "ERR_BAD_REQUEST", ""},
     contains : {{}, {"timeout"}, {"socket hang up"}, {"status code"}}]

isRetryableNetworkError(error) ==
    \/ error.code \in RETRYABLE_ERROR_CODES
    \/ error.contains \cap RetryableFragments # {}

NoOutcome == [kind |-> "none", call |-> 0, error |-> NoError]

------------------------------------------------------------------------------
Init ==
    /\ enabled \in BOOLEAN
    /\ useRedisDistributed \in BOOLEAN
    /\ redis = "null"
    /\ initWaiters = <<>>
    /\ connecting = 0
    /\ buckets = [s \in Creds |-> <<>>]
    /\ inflight = [s \in Creds |-> <<>>]
    /\ inflightPttl = [s \in Creds |-> 0]
    /\ nextAllowedIn = [s \in Creds |-> 0]
    /\ pc = [c \in Calls |-> "idle"]
    /\ sid = [c \in Calls |-> NoSid]
    /\ left = [c \in Calls |-> 0]
    /\ sleep = [c \in Calls |-> 0]
    /\ err = [c \in Calls |-> "none"]
    /\ elapsed = [c \in Calls |-> 0]
    /\ sinceLocalGrant = [s \in Creds |-> MinIntervalMs]
    /\ sinceDistGrant = [s \in Creds |-> MinIntervalMs]
    /\ taskStore = [t \in Tasks |-> NoTask]
    /\ writes = [t \in Tasks |-> [result |-> 0, error |-> 0]]
    /\ work = [t \in Tasks |-> "none"]
    /\ running = 0
    /\ cancelSeen = [t \in Tasks |-> "none"]
    /\ cancelOk = [t \in Tasks |-> FALSE]
    /\ callback = [t \in Tasks |-> "none"]
    /\ posts = [t \in Tasks |-> 0]
    /\ genCalls = [t \in Tasks |-> 0]
    /\ resp = [t \in Tasks |-> "none"]
    /\ hookPc = "idle"
    /\ answers = <<>>
    /\ hookWait = 0
    /\ sincePost = 0
    /\ record = NoRecord
    /\ reply = "none"
    /\ holders = 0
    /\ sent = [t \in Tasks |-> NoTask]
    /\ retryPc = "idle"
    /\ options = NoOptions
    /\ retries = 0
    /\ opCalls = 0
    /\ lastError = NoError
    /\ retrySleep = 0
    /\ waited = 0
    /\ outcome = NoOutcome

\* Fields that only mean something while the call is in the matching position.
Normal(f, newpc, live) == [c \in Calls |-> IF newpc[c] \in live THEN f[c] ELSE 0]

------------------------------------------------------------------------------
\* Mutant of Acquire: the test of this.enabled is missing.
AcquireNoEnabledCheck(c, s) ==
    /\ pc[c] = "idle"
    /\ sid' = [sid EXCEPT ![c] = s]
    /\ elapsed' = [elapsed EXCEPT ![c] = 0]
    /\ UNCHANGED <<taskVars, hookVars, auxVars, config, redis, redisVars>>
    /\ IF s = ""
       THEN /\ pc' = [pc EXCEPT ![c] = "heldNoop"]
            /\ err' = [err EXCEPT ![c] = "none"]
            /\ UNCHANGED <<initWaiters, connecting, buckets, left, sleep, sinceLocalGrant>>
       ELSE IF ~useRedisDistributed
       THEN /\ SetLocal(AcquireLocal([Local EXCEPT !.err[c] = "none"], c, s))
            /\ UNCHANGED <<initWaiters, connecting, sleep>>
       ELSE IF redis = "client"
       THEN /\ pc' = [pc EXCEPT ![c] = "dist"]
            /\ left' = [left EXCEPT ![c] = QueueTimeoutMs]
            /\ sleep' = [sleep EXCEPT ![c] = 0]
            /\ err' = [err EXCEPT ![c] = "none"]
            /\ UNCHANGED <<initWaiters, connecting, buckets, sinceLocalGrant>>
       ELSE /\ pc' = [pc EXCEPT ![c] = "awaitClient"]
            /\ initWaiters' = Append(initWaiters, c)
            /\ connecting' = IF initWaiters = <<>> THEN connecting + 1 ELSE connecting
            /\ err' = [err EXCEPT ![c] = "none"]
            /\ UNCHANGED <<buckets, left, sleep, sinceLocalGrant>>

\* Mutant of Acquire: getRedisClient without the test of this.redisInitPromise.
AcquireNoPromiseCheck(c, s) ==
    /\ pc[c] = "idle"
    /\ sid' = [sid EXCEPT ![c] = s]
    /\ elapsed' = [elapsed EXCEPT ![c] = 0]
    /\ UNCHANGED <<taskVars, hookVars, auxVars, config, redis, redisVars>>
    /\ IF ~enabled \/ s = ""
       THEN /\ pc' = [pc EXCEPT ![c] = "heldNoop"]
            /\ err' = [err EXCEPT ![c] = "none"]
            /\ UNCHANGED <<initWaiters, connecting, buckets, left, sleep, sinceLocalGrant>>
       ELSE IF ~useRedisDistributed
       THEN /\ SetLocal(AcquireLocal([Local EXCEPT !.err[c] = "none"], c, s))
            /\ UNCHANGED <<initWaiters, connecting, sleep>>
       ELSE IF redis = "client"
       THEN /\ pc' = [pc EXCEPT ![c] = "dist"]
            /\ left' = [left EXCEPT ![c] = QueueTimeoutMs]
            /\ sleep' = [sleep EXCEPT ![c] = 0]
            /\ err' = [err EXCEPT ![c] = "none"]
            /\ UNCHANGED <<initWaiters, connecting, buckets, sinceLocalGrant>>
       ELSE /\ pc' = [pc EXCEPT ![c] = "awaitClient"]
            /\ initWaiters' = Append(initWaiters, c)
            /\ connecting' = connecting + 1
            /\ err' = [err EXCEPT ![c] = "none"]
            /\ UNCHANGED <<buckets, left, sleep, sinceLocalGrant>>

\* acquire(sessionId), up to its first suspension.
Acquire(c, s) ==
    /\ pc[c] = "idle"
    /\ sid' = [sid EXCEPT ![c] = s]
    /\ elapsed' = [elapsed EXCEPT ![c] = 0]
    /\ UNCHANGED <<taskVars, hookVars, auxVars, config, redis, redisVars>>
    /\ IF ~enabled \/ s = ""
       THEN /\ pc' = [pc EXCEPT ![c] = "heldNoop"]
            /\ err' = [err EXCEPT ![c] = "none"]
            /\ UNCHANGED <<initWaiters, connecting, buckets, left, sleep, sinceLocalGrant>>
       ELSE IF ~useRedisDistributed
       THEN /\ SetLocal(AcquireLocal([Local EXCEPT !.err[c] = "none"], c, s))
            /\ UNCHANGED <<initWaiters, connecting, sleep>>
       ELSE IF redis = "client"
       THEN /\ pc' = [pc EXCEPT ![c] = "dist"]
            /\ left' = [left EXCEPT ![c] = QueueTimeoutMs]
            /\ sleep' = [sleep EXCEPT ![c] = 0]
            /\ err' = [err EXCEPT ![c] = "none"]
            /\ UNCHANGED <<initWaiters, connecting, buckets, sinceLocalGrant>>
       ELSE /\ pc' = [pc EXCEPT ![c] = "awaitClient"]
            /\ initWaiters' = Append(initWaiters, c)
            /\ connecting' = IF initWaiters = <<>> THEN connecting + 1 ELSE connecting
            /\ err' = [err EXCEPT ![c] = "none"]
            /\ UNCHANGED <<buckets, left, sleep, sinceLocalGrant>>

\* getRedisClient: client.connect() succeeded; every awaiting acquire enters
\* acquireDistributed.
ConnectOk ==
    /\ initWaiters # <<>>
    /\ redis' = "client"
    /\ initWaiters' = <<>>
    /\ connecting' = connecting - 1
    /\ pc' = [c \in Calls |-> IF InSeq(c, initWaiters) THEN "dist" ELSE pc[c]]
    /\ left' = [c \in Calls |-> IF InSeq(c, initWaiters) THEN QueueTimeoutMs ELSE left[c]]
    /\ UNCHANGED <<taskVars, hookVars, auxVars, config, buckets, redisVars, sid, sleep, err, elapsed,
                   sinceLocalGrant>>

\* getRedisClient: client.connect() failed; every awaiting acquire gets null and
\* goes on to acquireLocal, in await order.
ConnectFail ==
    /\ initWaiters # <<>>
    /\ redis' = "null"
    /\ initWaiters' = <<>>
    /\ connecting' = connecting - 1
    /\ SetLocal(AcquireLocalAll(Local, initWaiters))
    /\ elapsed' = Normal(elapsed, pc', Pending)
    /\ UNCHANGED <<taskVars, hookVars, auxVars, config, redisVars, sid, sleep>>

\* Mutant of Fallback: acquire without the try/catch, the error reaches the caller.
FallbackRethrow(c) ==
    /\ pc' = [pc EXCEPT ![c] = "failed"]
    /\ err' = [err EXCEPT ![c] = "store"]
    /\ left' = [left EXCEPT ![c] = 0]
    /\ sleep' = [sleep EXCEPT ![c] = 0]
    /\ elapsed' = [elapsed EXCEPT ![c] = 0]
    /\ UNCHANGED <<taskVars, hookVars, auxVars, config, redis, initWaiters, connecting, buckets, redisVars, sid,
                   sinceLocalGrant>>

\* The catch of acquire: the error of acquireDistributed is logged and the call
\* goes on to acquireLocal.
Fallback(c) ==
    /\ SetLocal(AcquireLocal(Local, c, sid[c]))
    /\ sleep' = [sleep EXCEPT ![c] = 0]
    /\ elapsed' = Normal(elapsed, pc', Pending)
    /\ UNCHANGED <<taskVars, hookVars, auxVars, config, redis, initWaiters, connecting, redisVars, sid>>

\* One iteration of the loop of acquireDistributed; evalThrows: redis.eval rejects.
AcquireDistributed(c, evalThrows) ==
    /\ pc[c] = "dist"
    /\ sleep[c] = 0
    /\ IF left[c] <= 0
       THEN Fallback(c)
       ELSE IF evalThrows
       THEN Fallback(c)
       ELSE LET r == AcquireScript(sid[c]) IN
            /\ inflight' = [inflight EXCEPT ![sid[c]] = r.inflight]
            /\ inflightPttl' = [inflightPttl EXCEPT ![sid[c]] = r.pttl]
            /\ nextAllowedIn' = [nextAllowedIn EXCEPT ![sid[c]] = r.next]
            /\ sinceDistGrant' = IF r.granted = 1
                                 THEN [sinceDistGrant EXCEPT ![sid[c]] = 0]
                                 ELSE sinceDistGrant
            /\ IF r.granted = 1
               THEN /\ pc' = [pc EXCEPT ![c] = "heldDist"]
                    /\ left' = [left EXCEPT ![c] = 0]
                    /\ elapsed' = [elapsed EXCEPT ![c] = 0]
                    /\ UNCHANGED sleep
               ELSE /\ IF r.reason = "interval" /\ r.waitMs > 0
                       THEN sleep' = [sleep EXCEPT ![c] = Min(r.waitMs, left[c])]
                       ELSE \E j \in 0..MaxJitter :
                              sleep' = [sleep EXCEPT
                                          ![c] = Min(RedisPollIntervalMs + j, left[c])]
                    /\ UNCHANGED <<pc, left, elapsed>>
            /\ UNCHANGED <<taskVars, hookVars, auxVars, config, redis, initWaiters, connecting, buckets, sid, err,
                           sinceLocalGrant>>

\* The release closure of acquireDistributed; evalThrows: redis.eval rejects and
\* the error is only logged.
ReleaseDistributed(c, evalThrows) ==
    /\ pc[c] = "heldDist"
    /\ pc' = [pc EXCEPT ![c] = "idle"]
    /\ IF evalThrows
       THEN UNCHANGED redisVars
       ELSE LET r == ReleaseScript(sid[c]) IN
            /\ inflight' = [inflight EXCEPT ![sid[c]] = r.inflight]
            /\ inflightPttl' = [inflightPttl EXCEPT ![sid[c]] = r.pttl]
            /\ UNCHANGED <<nextAllowedIn, sinceDistGrant>>
    /\ UNCHANGED <<taskVars, hookVars, auxVars, config, redis, initWaiters, connecting, buckets, left, sleep, err,
                   elapsed, sinceLocalGrant>>
    /\ sid' = [sid EXCEPT ![c] = NoSid]

\* The holder of a distributed grant dies: its release closure is never called.
Crash(c) ==
    /\ pc[c] = "heldDist"
    /\ pc' = [pc EXCEPT ![c] = "idle"]
    /\ UNCHANGED <<taskVars, hookVars, auxVars, config, redis, initWaiters, connecting, buckets, redisVars, left, sleep,
                   err, elapsed, sinceLocalGrant>>
    /\ sid' = [sid EXCEPT ![c] = NoSid]

ReleaseLocal(c) ==
    /\ pc[c] = "heldLocal"
    /\ SetLocal(ReleaseOp(Local, c))
    /\ elapsed' = Normal(elapsed, pc', Pending)
    /\ UNCHANGED <<taskVars, hookVars, auxVars, config, redis, initWaiters, connecting, redisVars, sleep>>
    /\ sid' = [sid EXCEPT ![c] = NoSid]

\* The release of a disabled limiter: async () => {}.
ReleaseNoop(c) ==
    /\ pc[c] = "heldNoop"
    /\ pc' = [pc EXCEPT ![c] = "idle"]
    /\ UNCHANGED <<taskVars, hookVars, auxVars, config, redis, initWaiters, connecting, buckets, redisVars, left, sleep,
                   err, elapsed, sinceLocalGrant>>
    /\ sid' = [sid EXCEPT ![c] = NoSid]

\* The caller has seen the rejection of its acquire().
Forget(c) ==
    /\ pc[c] = "failed"
    /\ pc' = [pc EXCEPT ![c] = "idle"]
    /\ err' = [err EXCEPT ![c] = "none"]
    /\ UNCHANGED <<taskVars, hookVars, auxVars, config, redis, initWaiters, connecting, buckets, redisVars, left, sleep,
                   elapsed, sinceLocalGrant>>
    /\ sid' = [sid EXCEPT ![c] = NoSid]

\* release() of processQueue by a caller that keeps the closure: released = true.
ReleaseLocalKept(c) ==
    /\ pc[c] = "heldLocal"
    /\ SetLocal([ReleaseOp(Local, c) EXCEPT !.pc[c] = "doneLocal"])
    /\ elapsed' = Normal(elapsed, pc', Pending)
    /\ UNCHANGED <<taskVars, hookVars, auxVars, config, redis, initWaiters, connecting, redisVars, sid, sleep>>

\* Mutant of ReleaseLocalAgain: the closure has no released flag.
ReleaseLocalAgainNoFlag(c) ==
    /\ pc[c] = "doneLocal"
    /\ buckets[sid[c]] # <<>>
    /\ SetLocal([ReleaseOp(Local, c) EXCEPT !.pc[c] = "doneLocal"])
    /\ elapsed' = Normal(elapsed, pc', Pending)
    /\ UNCHANGED <<taskVars, hookVars, auxVars, config, redis, initWaiters, connecting, redisVars, sid, sleep>>

\* release() of processQueue called again: if (released) return.
ReleaseLocalAgain(c) ==
    /\ pc[c] = "doneLocal"
    /\ UNCHANGED vars

\* release() of acquireDistributed by a caller that keeps the closure.
ReleaseDistributedKept(c, evalThrows) ==
    /\ pc[c] = "heldDist"
    /\ pc' = [pc EXCEPT ![c] = "doneDist"]
    /\ IF evalThrows
       THEN UNCHANGED redisVars
       ELSE LET r == ReleaseScript(sid[c]) IN
            /\ inflight' = [inflight EXCEPT ![sid[c]] = r.inflight]
            /\ inflightPttl' = [inflightPttl EXCEPT ![sid[c]] = r.pttl]
            /\ UNCHANGED <<nextAllowedIn, sinceDistGrant>>
    /\ UNCHANGED <<taskVars, hookVars, auxVars, config, redis, initWaiters, connecting, buckets, sid, left, sleep, err,
                   elapsed, sinceLocalGrant>>

\* release() of acquireDistributed called again: if (released) return.
ReleaseDistributedAgain(c) ==
    /\ pc[c] = "doneDist"
    /\ UNCHANGED vars

\* The caller lets go of a release closure it has called.
DropRelease(c) ==
    /\ pc[c] \in {"doneLocal", "doneDist"}
    /\ pc' = [pc EXCEPT ![c] = "idle"]
    /\ UNCHANGED <<taskVars, hookVars, auxVars, config, redis, initWaiters, connecting, buckets, redisVars, left, sleep,
                   err, elapsed, sinceLocalGrant>>
    /\ sid' = [sid EXCEPT ![c] = NoSid]

WaiterTimeout(c) ==
    /\ pc[c] = "queued"
    /\ left[c] = 0
    /\ SetLocal(WaiterTimeoutOp(Local, c))
    /\ elapsed' = Normal(elapsed, pc', Pending)
    /\ UNCHANGED <<taskVars, hookVars, auxVars, config, redis, initWaiters, connecting, redisVars, sid, sleep>>

RetryTimer(s) ==
    /\ buckets[s] # <<>>
    /\ buckets[s][1].timer = 0
    /\ SetLocal(RetryTimerOp(Local, s))
    /\ elapsed' = Normal(elapsed, pc', Pending)
    /\ UNCHANGED <<taskVars, hookVars, auxVars, config, redis, initWaiters, connecting, redisVars, sid, sleep>>

\* Something is due at the current instant.
Due ==
    \/ \E c \in Calls : pc[c] = "dist" /\ sleep[c] = 0
    \/ \E c \in Calls : pc[c] = "queued" /\ left[c] = 0
    \/ \E s \in Creds : buckets[s] # <<>> /\ buckets[s][1].timer = 0
    \/ \E c \in Calls : pc[c] = "awaitClient" /\ elapsed[c] >= ConnectMaxMs

Dec(n) == Max(0, n - 1)

AgeBucket(b) ==
    [b EXCEPT !.age = Min(@ + 1, MinIntervalMs),
              !.timer = IF @ = NoTimer THEN NoTimer ELSE @ - 1]

\* The clock advances by one unit; Redis drops the keys whose TTL ran out.
Tick ==
    /\ ~Due
    /\ buckets' = [s \in Creds |->
                     IF buckets[s] = <<>> THEN <<>> ELSE <<AgeBucket(buckets[s][1])>>]
    /\ inflight' = [s \in Creds |-> IF inflightPttl[s] <= 1 THEN <<>> ELSE inflight[s]]
    /\ inflightPttl' = [s \in Creds |-> Dec(inflightPttl[s])]
    /\ nextAllowedIn' = [s \in Creds |-> Dec(nextAllowedIn[s])]
    /\ left' = [c \in Calls |-> Dec(left[c])]
    /\ sleep' = [c \in Calls |-> Dec(sleep[c])]
    /\ elapsed' = [c \in Calls |->
                     IF pc[c] \in Pending THEN Min(elapsed[c] + 1, QueueTimeoutMs + 1)
                     ELSE elapsed[c]]
    /\ sinceLocalGrant' = [s \in Creds |-> Min(sinceLocalGrant[s] + 1, MinIntervalMs)]
    /\ sinceDistGrant' = [s \in Creds |-> Min(sinceDistGrant[s] + 1, MinIntervalMs)]
    /\ UNCHANGED <<taskVars, hookVars, auxVars, config, redis, initWaiters, connecting, pc, sid, err>>

Next ==
    \/ \E c \in Calls, s \in Primary : Acquire(c, s)
    \/ ConnectOk
    \/ ConnectFail
    \/ \E c \in Calls, evalThrows \in BOOLEAN : AcquireDistributed(c, evalThrows)
    \/ \E c \in Calls, evalThrows \in BOOLEAN : ReleaseDistributed(c, evalThrows)
    \/ \E c \in Calls : Crash(c)
    \/ \E c \in Calls : ReleaseLocal(c)
    \/ \E c \in Calls : ReleaseNoop(c)
    \/ \E c \in Calls : Forget(c)
    \/ \E c \in Calls : WaiterTimeout(c)
    \/ \E s \in Creds : RetryTimer(s)
    \/ Tick

Spec == Init /\ [][Next]_vars

\* The store answers every call: connect() succeeds and redis.eval never rejects.
\* Time does not stop: a due timer fires, a runnable continuation runs, the clock
\* advances.
FairInit == Init /\ enabled /\ useRedisDistributed

FairNext ==
    \/ \E c \in Calls, s \in Primary : Acquire(c, s)
    \/ ConnectOk
    \/ \E c \in Calls : AcquireDistributed(c, FALSE)
    \/ \E c \in Calls : ReleaseDistributed(c, FALSE)
    \/ \E c \in Calls : Crash(c)
    \/ \E c \in Calls : ReleaseLocal(c)
    \/ \E c \in Calls : Forget(c)
    \/ \E c \in Calls : WaiterTimeout(c)
    \/ \E s \in Creds : RetryTimer(s)
    \/ Tick

FairSpec ==
    /\ FairInit
    /\ [][FairNext]_vars
    /\ WF_vars(Tick)
    /\ WF_vars(ConnectOk)
    /\ WF_vars(\E c \in Calls : AcquireDistributed(c, FALSE))
    /\ WF_vars(\E c \in Calls : WaiterTimeout(c))
    /\ WF_vars(\E s \in Creds : RetryTimer(s))

\* An enabled limiter configured for local mode (no REDIS_URL).
LocalInit == Init /\ enabled /\ ~useRedisDistributed

------------------------------------------------------------------------------
\* The admission record of one credential under the script runs of up to MaxCalls
\* callers of acquireDistributed.

\* One redis.eval of the acquire script by a caller that holds no grant.
ScriptAcquire ==
    /\ holders < MaxCalls
    /\ LET r == EvalAcquire(record) IN
         /\ record' = r.rec
         /\ reply' = r.reason
         /\ holders' = holders + r.granted
    /\ UNCHANGED <<limiterVars, taskVars, hookVars, sent, retryVars>>

\* The first call of the release closure of a grant.
ScriptRelease ==
    /\ holders > 0
    /\ record' = EvalRelease(record)
    /\ reply' = "released"
    /\ holders' = holders - 1
    /\ UNCHANGED <<limiterVars, taskVars, hookVars, sent, retryVars>>

\* The clock advances by one unit.
ScriptTick ==
    /\ record' = Expire(record)
    /\ reply' = "none"
    /\ UNCHANGED <<limiterVars, taskVars, hookVars, sent, retryVars, holders>>

\* axiosWithRetry(operation, context, o) up to its first await: operation() is
\* called.
RetryStart(o) ==
    /\ retryPc = "idle"
    /\ options' = o
    /\ retries' = 0
    /\ opCalls' = 1
    /\ retryPc' = "calling"
    /\ UNCHANGED <<limiterVars, taskVars, hookVars, scriptVars, sent, lastError, retrySleep,
                   waited, outcome>>

\* operation() resolves: return await operation().
OperationResolves ==
    /\ retryPc = "calling"
    /\ retryPc' = "returned"
    /\ outcome' = [kind |-> "value", call |-> opCalls, error |-> NoError]
    /\ UNCHANGED <<limiterVars, taskVars, hookVars, scriptVars, sent, options, retries, opCalls,
                   lastError, retrySleep, waited>>

\* Mutant of OperationRejects: the test is retries > maxRetries.
OperationRejectsOneMore(error) ==
    /\ retryPc = "calling"
    /\ lastError' = error
    /\ IF ~isRetryableNetworkError(error) \/ retries > MaxRetriesOf(options)
       THEN /\ retryPc' = "thrown"
            /\ outcome' = [kind |-> "error", call |-> opCalls, error |-> error]
            /\ UNCHANGED <<retries, retrySleep, waited>>
       ELSE /\ retries' = retries + 1
            /\ retryPc' = "sleeping"
            /\ retrySleep' = RetryDelayOf(options)
            /\ waited' = 0
            /\ UNCHANGED outcome
    /\ UNCHANGED <<limiterVars, taskVars, hookVars, scriptVars, sent, options, opCalls>>

\* operation() rejects: the catch block of the loop.
OperationRejects(error) ==
    /\ retryPc = "calling"
    /\ lastError' = error
    /\ IF ~isRetryableNetworkError(error) \/ retries >= MaxRetriesOf(options)
       THEN /\ retryPc' = "thrown"
            /\ outcome' = [kind |-> "error", call |-> opCalls, error |-> error]
            /\ UNCHANGED <<retries, retrySleep, waited>>
       ELSE /\ retries' = retries + 1
            /\ retryPc' = "sleeping"
            /\ retrySleep' = RetryDelayOf(options)
            /\ waited' = 0
            /\ UNCHANGED outcome
    /\ UNCHANGED <<limiterVars, taskVars, hookVars, scriptVars, sent, options, opCalls>>

\* The clock advances by one unit during sleep(retryDelayMs).
RetryTick ==
    /\ retryPc = "sleeping"
    /\ retrySleep > 0
    /\ retrySleep' = retrySleep - 1
    /\ waited' = waited + 1
    /\ UNCHANGED <<limiterVars, taskVars, hookVars, scriptVars, sent, retryPc, options, retries,
                   opCalls, lastError, outcome>>

\* The sleep is over: the loop calls operation() again.
RetryWake ==
    /\ retryPc = "sleeping"
    /\ retrySleep = 0
    /\ retryPc' = "calling"
    /\ opCalls' = opCalls + 1
    /\ UNCHANGED <<limiterVars, taskVars, hookVars, scriptVars, sent, options, retries,
                   lastError, retrySleep, waited, outcome>>

RetryNext ==
    \/ \E o \in OptionSets : RetryStart(o)
    \/ OperationResolves
    \/ \E error \in Errors : OperationRejects(error)
    \/ RetryTick
    \/ RetryWake

\* Every call of operation() settles (the requests carry a timeout of
\* DEFAULT_NETWORK_TIMEOUT_MS) and timers fire.
RetrySpec ==
    /\ LocalInit
    /\ [][RetryNext]_vars
    /\ WF_vars(OperationResolves \/ \E error \in Errors : OperationRejects(error))
    /\ WF_vars(RetryTick)
    /\ WF_vars(RetryWake)

ScriptNext ==
    \/ ScriptAcquire
    \/ ScriptRelease
    \/ ScriptTick

\* An enabled limiter configured for distributed mode (REDIS_URL set).
ScriptInit == Init /\ enabled /\ useRedisDistributed

ScriptSpec == ScriptInit /\ [][ScriptNext]_vars

------------------------------------------------------------------------------
\* POST /v1/videos/generations.  A submission is a JSON request; of its body only
\* the fields the route validates and branches on are kept, each as the class of
\* its value.
MAX_STANDARD_INPUT_IMAGES == 2
MAX_OMNI_MATERIALS == 9
MinDuration == 4
MaxDuration == 15

Requests ==
    [ prompt : {"text", "undefined"},
      duration : {0, 4, 16},          \* 0: undefined
      functionMode : {"undefined", "omni_reference", "other"},
      async : {"undefined", "true", "yes"},   \* "true": the boolean true
      callback_url : {"undefined", "http", "ftp"},
      filePaths : {0, 3, 10},       \* length of file_paths / filePaths
      omniFiles : {0, 10},          \* uploads in a field isOmniMaterialField accepts
      otherFiles : {0, 1, 3},       \* uploads in any other field
      materialUrls : {0, 1} ]       \* http values of body fields isOmniMaterialField accepts

\* The request.validate(...) chain.
FieldsValid(r) ==
    /\ r.prompt = "text"
    /\ r.duration = 0 \/ r.duration \in MinDuration..MaxDuration
    /\ r.functionMode \in {"undefined", "first_last_frames", "omni_reference"}
    /\ r.async \in {"undefined", "true", "false", "'true'", "'false'"}
    /\ r.callback_url \in {"undefined", "http"}

isOmniMode(r) == r.functionMode = "omni_reference"

uploadedMaterialCount(r) ==
    IF isOmniMode(r) THEN r.omniFiles ELSE r.omniFiles + r.otherFiles

\* The checks of the route up to the choice of the token, in the order of the
\* code: "ok", or the first check that throws.
Validate(r) ==
    IF ~FieldsValid(r) THEN "field"
    ELSE IF ~isOmniMode(r) /\ r.filePaths > MAX_STANDARD_INPUT_IMAGES THEN "paths"
    ELSE IF isOmniMode(r) /\ r.filePaths > MAX_OMNI_MATERIALS THEN "paths"
    ELSE IF uploadedMaterialCount(r) >
              (IF isOmniMode(r) THEN MAX_OMNI_MATERIALS ELSE MAX_STANDARD_INPUT_IMAGES)
         THEN "uploads"
    ELSE IF isOmniMode(r) /\ r.otherFiles > 0 THEN "omniField"
    ELSE IF /\ isOmniMode(r)
            /\ uploadedMaterialCount(r) = 0
            /\ r.filePaths = 0
            /\ r.materialUrls = 0
         THEN "noMaterial"
    ELSE "ok"

\* The errors the checks throw.
Rejections == {"field", "paths", "uploads", "omniField", "noMaterial"}

\* const isAsync = ... request.body.async === true (the request is not multipart).
isAsync(r) == r.async = "true"

\* A valid async request without input files; cb is its callback_url.
Plain(cb) ==
    [ prompt |-> "text", duration |-> 0, functionMode |-> "undefined",
      async |-> "true", callback_url |-> cb, filePaths |-> 0, omniFiles |-> 0,
      otherFiles |-> 0, materialUrls |-> 0 ]

\* Mutant of Submit: the sync path creates a task record too.
SubmitSyncCreates(t, r, up, ok) ==
    /\ resp[t] = "none"
    /\ IF Validate(r) # "ok"
       THEN /\ resp' = [resp EXCEPT ![t] = Validate(r)]
            /\ UNCHANGED <<taskStore, work, callback, genCalls>>
       ELSE IF isAsync(r)
       THEN /\ taskStore' = [taskStore EXCEPT ![t] = Create]
            /\ callback' = [callback EXCEPT ![t] =
                              IF r.callback_url = "undefined" THEN "none"
                              ELSE IF up THEN "up" ELSE "down"]
            /\ work' = [work EXCEPT ![t] = "enqueued"]
            /\ resp' = [resp EXCEPT ![t] = "pending"]
            /\ UNCHANGED genCalls
       ELSE /\ genCalls' = [genCalls EXCEPT ![t] = @ + 1]
            /\ resp' = [resp EXCEPT ![t] = IF ok THEN "result" ELSE "error"]
            /\ taskStore' = [taskStore EXCEPT ![t] = Create]
            /\ UNCHANGED <<work, callback>>
    /\ UNCHANGED <<limiterVars, hookVars, auxVars, writes, running, cancelSeen, cancelOk, posts>>

\* Mutant of Submit: the task record is created before the checks.
SubmitCreatesFirst(t, r, up, ok) ==
    /\ resp[t] = "none"
    /\ IF Validate(r) # "ok"
       THEN /\ resp' = [resp EXCEPT ![t] = Validate(r)]
            /\ taskStore' = [taskStore EXCEPT ![t] = IF isAsync(r) THEN Create ELSE @]
            /\ UNCHANGED <<work, callback, genCalls>>
       ELSE IF isAsync(r)
       THEN /\ taskStore' = [taskStore EXCEPT ![t] = Create]
            /\ callback' = [callback EXCEPT ![t] =
                              IF r.callback_url = "undefined" THEN "none"
                              ELSE IF up THEN "up" ELSE "down"]
            /\ work' = [work EXCEPT ![t] = "enqueued"]
            /\ resp' = [resp EXCEPT ![t] = "pending"]
            /\ UNCHANGED genCalls
       ELSE /\ genCalls' = [genCalls EXCEPT ![t] = @ + 1]
            /\ resp' = [resp EXCEPT ![t] = IF ok THEN "result" ELSE "error"]
            /\ UNCHANGED <<taskStore, work, callback>>
    /\ UNCHANGED <<limiterVars, hookVars, auxVars, writes, running, cancelSeen, cancelOk, posts>>

\* The route handles submission t with request r.  up: the endpoint behind the
\* callback_url answers 2xx (to every POST; otherwise to none).  ok: generateVideo
\* and the formatting of its result do not throw on the sync path.
\* Invalid: the route throws (the answer is the error).  Async: taskStore.create, taskQueue.enqueue, answer
\* {task_id, status: "pending"}.  Sync: generateVideo inline, answer its result.
Submit(t, r, up, ok) ==
    /\ resp[t] = "none"
    /\ IF Validate(r) # "ok"
       THEN /\ resp' = [resp EXCEPT ![t] = Validate(r)]
            /\ UNCHANGED <<taskStore, work, callback, genCalls>>
       ELSE IF isAsync(r)
       THEN /\ taskStore' = [taskStore EXCEPT ![t] = Create]
            /\ callback' = [callback EXCEPT ![t] =
                              IF r.callback_url = "undefined" THEN "none"
                              ELSE IF up THEN "up" ELSE "down"]
            /\ work' = [work EXCEPT ![t] = "enqueued"]
            /\ resp' = [resp EXCEPT ![t] = "pending"]
            /\ UNCHANGED genCalls
       ELSE /\ genCalls' = [genCalls EXCEPT ![t] = @ + 1]
            /\ resp' = [resp EXCEPT ![t] = IF ok THEN "result" ELSE "error"]
            /\ UNCHANGED <<taskStore, work, callback>>
    /\ UNCHANGED <<limiterVars, hookVars, auxVars, writes, running, cancelSeen, cancelOk, posts>>

\* TaskQueue: a worker slot is free; the queue looks at the task (the point-in-time
\* check for a cancellation) and either drops it or takes the slot for it.
QueueAdmit(t) ==
    /\ work[t] = "enqueued"
    /\ running < QueueConcurrency
    /\ IF taskStore[t].status = "cancelled"
       THEN /\ work' = [work EXCEPT ![t] = "dropped"]
            /\ UNCHANGED running
       ELSE /\ work' = [work EXCEPT ![t] = "admitted"]
            /\ running' = running + 1
    /\ UNCHANGED <<limiterVars, hookVars, auxVars, taskStore, writes, cancelSeen, cancelOk, callback, posts,
                   genCalls, resp>>

\* TaskQueue invokes work; the work function runs up to its first await.
QueueInvoke(t) ==
    /\ work[t] = "admitted"
    /\ work' = [work EXCEPT ![t] = "invoked"]
    /\ UNCHANGED <<limiterVars, hookVars, auxVars, taskStore, writes, running, cancelSeen, cancelOk, callback,
                   posts, genCalls, resp>>

\* work: await taskStore.update(task.id, {status: "processing", ...}).
WorkProcessing(t) ==
    /\ work[t] = "invoked"
    /\ taskStore' = [taskStore EXCEPT ![t] = Update(@, [status |-> "processing"])]
    /\ work' = [work EXCEPT ![t] = "generating"]
    /\ UNCHANGED <<limiterVars, hookVars, auxVars, writes, running, cancelSeen, cancelOk, callback, posts,
                   genCalls, resp>>

\* Mutant of Generate: a failed generation is attempted again.
GenerateRetry(t, ok) ==
    /\ work[t] = "generating"
    /\ genCalls[t] < 3
    /\ genCalls' = [genCalls EXCEPT ![t] = @ + 1]
    /\ work' = [work EXCEPT ![t] = IF ok THEN "succeeded" ELSE "generating"]
    /\ UNCHANGED <<limiterVars, hookVars, auxVars, taskStore, writes, running, cancelSeen, cancelOk,
                   callback, posts, resp>>

\* work: await generateVideo(...) and the formatting of the result; ok: neither
\* throws.
Generate(t, ok) ==
    /\ work[t] = "generating"
    /\ genCalls' = [genCalls EXCEPT ![t] = @ + 1]
    /\ work' = [work EXCEPT ![t] = IF ok THEN "succeeded" ELSE "threw"]
    /\ UNCHANGED <<limiterVars, hookVars, auxVars, taskStore, writes, running, cancelSeen, cancelOk, callback,
                   posts, resp>>

\* work: await taskStore.update(task.id, {status: "completed", result, ...}) at the
\* end of the try block, or {status: "failed", error: err.message, ...} in the
\* catch block; "generator" is the message of the error thrown in the try block.
WorkReport(t) ==
    /\ work[t] \in {"succeeded", "threw"}
    /\ IF work[t] = "succeeded"
       THEN /\ taskStore' = [taskStore EXCEPT
                               ![t] = Update(@, [status |-> "completed", result |-> "set"])]
            /\ writes' = [writes EXCEPT ![t].result = @ + 1]
       ELSE /\ taskStore' = [taskStore EXCEPT
                               ![t] = Update(@, [status |-> "failed", error |-> "generator"])]
            /\ writes' = [writes EXCEPT ![t].error = @ + 1]
    /\ work' = [work EXCEPT ![t] = "reported"]
    /\ UNCHANGED <<limiterVars, hookVars, auxVars, running, cancelSeen, cancelOk, callback, posts, genCalls,
                   resp>>

\* sendWebhook / WebhookDispatcher.dispatch: the POSTs one dispatch makes to an
\* endpoint that answers 2xx to every POST (up), or to none until the dispatch
\* gives up; it resolves either way.
MaxAttempts == 4
Deliveries(up) == IF up THEN 1 ELSE MaxAttempts

\* One dispatch for task t when its record has a callback_url.
Dispatch(t) ==
    IF callback[t] = "none" THEN posts
    ELSE [posts EXCEPT ![t] = @ + Deliveries(callback[t] = "up")]

\* Mutant of WorkNotify: sendWebhook is called without the test of callback_url.
WorkNotifyAlways(t, getOk) ==
    /\ work[t] = "reported"
    /\ IF getOk
       THEN /\ posts' = [posts EXCEPT ![t] = @ + Deliveries(callback[t] = "up")]
            /\ sent' = [sent EXCEPT ![t] = taskStore[t]]
            /\ work' = [work EXCEPT ![t] = "returned"]
       ELSE /\ work' = [work EXCEPT ![t] = "rejected"]
            /\ UNCHANGED <<posts, sent>>
    /\ UNCHANGED <<limiterVars, hookVars, scriptVars, retryVars, taskStore, writes, running, cancelSeen,
                   cancelOk,
                   callback, genCalls, resp>>

\* work, after the try / catch: const finalTask = await taskStore.get(task.id);
\* if (finalTask?.callback_url) await sendWebhook(...).  getOk: the get resolves;
\* otherwise it rejects and, being outside the try block, work rejects with it.
WorkNotify(t, getOk) ==
    /\ work[t] = "reported"
    /\ IF getOk
       THEN /\ posts' = Dispatch(t)
            /\ sent' = IF callback[t] = "none" THEN sent
                       ELSE [sent EXCEPT ![t] = taskStore[t]]
            /\ work' = [work EXCEPT ![t] = "returned"]
       ELSE /\ work' = [work EXCEPT ![t] = "rejected"]
            /\ UNCHANGED <<posts, sent>>
    /\ UNCHANGED <<limiterVars, hookVars, scriptVars, retryVars, taskStore, writes, running, cancelSeen,
                   cancelOk,
                   callback, genCalls, resp>>

\* Mutant of QueueCatch: the rejection is swallowed and the record left alone.
QueueCatchKeeps(t) ==
    /\ work[t] = "rejected"
    /\ work' = [work EXCEPT ![t] = "caught"]
    /\ UNCHANGED <<limiterVars, hookVars, auxVars, taskStore, writes, running, cancelSeen, cancelOk, callback,
                   posts, genCalls, resp>>

\* TaskQueue catches the rejection of work and converts it into the failed state
\* of the task with the error's message ("store": the message of the rejected get).
QueueCatch(t) ==
    /\ work[t] = "rejected"
    /\ taskStore' = [taskStore EXCEPT
                       ![t] = Update(@, [status |-> "failed", error |-> "store"])]
    /\ writes' = [writes EXCEPT ![t].error = @ + 1]
    /\ work' = [work EXCEPT ![t] = "caught"]
    /\ UNCHANGED <<limiterVars, hookVars, auxVars, running, cancelSeen, cancelOk, callback, posts, genCalls,
                   resp>>

\* Mutant of QueueFinish: the slot of a unit of work that raised is not given back.
QueueFinishLeak(t, getOk) ==
    /\ work[t] \in {"returned", "caught"}
    /\ posts' = IF getOk THEN Dispatch(t) ELSE posts
    /\ running' = IF work[t] = "caught" THEN running ELSE running - 1
    /\ work' = [work EXCEPT ![t] = "done"]
    /\ UNCHANGED <<limiterVars, hookVars, auxVars, taskStore, writes, cancelSeen, cancelOk, callback, genCalls,
                   resp>>

\* TaskQueue after work has ended either way: it dispatches the webhook if the
\* re-read record has a callback_url (getOk: the re-read resolves) and gives the
\* worker slot back.
QueueFinish(t, getOk) ==
    /\ work[t] \in {"returned", "caught"}
    /\ posts' = IF getOk THEN Dispatch(t) ELSE posts
    /\ running' = running - 1
    /\ work' = [work EXCEPT ![t] = "done"]
    /\ UNCHANGED <<limiterVars, hookVars, auxVars, taskStore, writes, cancelSeen, cancelOk, callback, genCalls,
                   resp>>

\* POST /v1/tasks/:taskId/cancel: the request reads the record.
CancelRead(t) ==
    /\ cancelSeen[t] = "none"
    /\ taskStore[t].status # "absent"
    /\ cancelSeen' = [cancelSeen EXCEPT ![t] = taskStore[t].status]
    /\ UNCHANGED <<limiterVars, hookVars, auxVars, taskStore, writes, work, running, cancelOk, callback, posts,
                   genCalls, resp>>

\* The cancel request decides on the status it read: pending or queued is
\* cancelled with an update of the record, any other status is rejected.
CancelWrite(t) ==
    /\ cancelSeen[t] # "none"
    /\ cancelSeen' = [cancelSeen EXCEPT ![t] = "none"]
    /\ IF cancelSeen[t] \in {"pending", "queued"}
       THEN /\ taskStore' = [taskStore EXCEPT ![t] = Update(@, [status |-> "cancelled"])]
            /\ cancelOk' = [cancelOk EXCEPT ![t] = TRUE]
       ELSE UNCHANGED <<taskStore, cancelOk>>
    /\ UNCHANGED <<limiterVars, hookVars, auxVars, writes, work, running, callback, posts, genCalls, resp>>

\* Async submissions without a callback_url, cancel requests, and a store that
\* answers every call.
TaskNext ==
    \/ \E t \in Tasks : Submit(t, Plain("undefined"), TRUE, TRUE)
    \/ \E t \in Tasks : QueueAdmit(t)
    \/ \E t \in Tasks : QueueInvoke(t)
    \/ \E t \in Tasks : WorkProcessing(t)
    \/ \E t \in Tasks, ok \in BOOLEAN : Generate(t, ok)
    \/ \E t \in Tasks : WorkReport(t)
    \/ \E t \in Tasks : WorkNotify(t, TRUE)
    \/ \E t \in Tasks : QueueFinish(t, TRUE)
    \/ \E t \in Tasks : CancelRead(t)
    \/ \E t \in Tasks : CancelWrite(t)

\* The limiter plays no part: it is enabled, in local mode, and idle.
TaskSpec == LocalInit /\ [][TaskNext]_vars

\* Async submissions with and without a callback_url; the re-read of the record
\* before a dispatch may reject; no cancel requests.
NotifyNext ==
    \/ \E t \in Tasks, cb \in {"undefined", "http"}, up \in BOOLEAN :
          Submit(t, Plain(cb), up, TRUE)
    \/ \E t \in Tasks : QueueAdmit(t)
    \/ \E t \in Tasks : QueueInvoke(t)
    \/ \E t \in Tasks : WorkProcessing(t)
    \/ \E t \in Tasks, ok \in BOOLEAN : Generate(t, ok)
    \/ \E t \in Tasks : WorkReport(t)
    \/ \E t \in Tasks, getOk \in BOOLEAN : WorkNotify(t, getOk)
    \/ \E t \in Tasks : QueueCatch(t)
    \/ \E t \in Tasks, getOk \in BOOLEAN : QueueFinish(t, getOk)

NotifySpec == LocalInit /\ [][NotifyNext]_vars

\* The queue and the work function take every step that is possible: store
\* calls, generateVideo and webhook dispatches return.
FairNotifySpec ==
    /\ NotifySpec
    /\ \A t \in Tasks :
         /\ WF_vars(QueueAdmit(t))
         /\ WF_vars(QueueInvoke(t))
         /\ WF_vars(WorkProcessing(t))
         /\ WF_vars(\E ok \in BOOLEAN : Generate(t, ok))
         /\ WF_vars(WorkReport(t))
         /\ WF_vars(\E getOk \in BOOLEAN : WorkNotify(t, getOk))
         /\ WF_vars(QueueCatch(t))
         /\ WF_vars(\E getOk \in BOOLEAN : QueueFinish(t, getOk))

\* WebhookDispatcher.dispatch(task) for a task with a callback_url.  One unit of
\* time is HookUnitS seconds.
HookUnitS == 5

\* Delays before the 2nd, 3rd and 4th attempt: 5 s, 15 s, 30 s.
RetryDelays == <<1, 3, 6>>

Responses == {"2xx", "500", "network"}

\* The dispatch is called and is about to make its first POST.
HookStart ==
    /\ hookPc = "idle"
    /\ hookPc' = "post"
    /\ UNCHANGED <<limiterVars, taskVars, auxVars, answers, hookWait, sincePost>>

\* Mutant of HookPost: a 2xx answer does not stop the dispatch.
HookPostNoStop(r) ==
    /\ hookPc = "post"
    /\ answers' = Append(answers, r)
    /\ sincePost' = 0
    /\ IF Len(answers') <= Len(RetryDelays)
       THEN hookPc' = "wait" /\ hookWait' = RetryDelays[Len(answers')]
       ELSE hookPc' = "gaveUp" /\ hookWait' = 0
    /\ UNCHANGED <<limiterVars, taskVars, auxVars>>

\* One POST and the answer r to it: a 2xx answer ends the dispatch; after any
\* other answer the dispatch sleeps for the next delay, or gives up (it logs and
\* returns) when no retry is left.
HookPost(r) ==
    /\ hookPc = "post"
    /\ answers' = Append(answers, r)
    /\ sincePost' = 0
    /\ IF r = "2xx"
       THEN hookPc' = "delivered" /\ hookWait' = 0
       ELSE IF Len(answers') <= Len(RetryDelays)
       THEN hookPc' = "wait" /\ hookWait' = RetryDelays[Len(answers')]
       ELSE hookPc' = "gaveUp" /\ hookWait' = 0
    /\ UNCHANGED <<limiterVars, taskVars, auxVars>>

\* One unit of time passes during the sleep.
HookTick ==
    /\ hookPc = "wait"
    /\ hookWait > 0
    /\ hookWait' = hookWait - 1
    /\ sincePost' = sincePost + 1
    /\ UNCHANGED <<limiterVars, taskVars, auxVars, hookPc, answers>>

\* The sleep is over.
HookWake ==
    /\ hookPc = "wait"
    /\ hookWait = 0
    /\ hookPc' = "post"
    /\ UNCHANGED <<limiterVars, taskVars, auxVars, answers, hookWait, sincePost>>

HookNext ==
    \/ HookStart
    \/ \E r \in Responses : HookPost(r)
    \/ HookTick
    \/ HookWake

WebhookSpec == LocalInit /\ [][HookNext]_vars

\* Every request the route can be sent, and the first steps of the queue and of
\* work.
RouteNext ==
    \/ \E t \in Tasks, r \in Requests, b \in BOOLEAN : Submit(t, r, b, b)
    \/ \E t \in Tasks : QueueAdmit(t)
    \/ \E t \in Tasks : QueueInvoke(t)
    \/ \E t \in Tasks : WorkProcessing(t)

RouteSpec == LocalInit /\ [][RouteNext]_vars

\* A valid request without input files that does not ask for async.
PlainSync(cb) == [Plain(cb) EXCEPT !.async = "undefined"]

\* Valid submissions on the async and on the sync path, and the first steps of
\* the queue and of work.
PathNext ==
    \/ \E t \in Tasks, cb \in {"undefined", "http"}, b \in BOOLEAN :
          Submit(t, Plain(cb), b, b)
    \/ \E t \in Tasks, cb \in {"undefined", "http"}, b \in BOOLEAN :
          Submit(t, PlainSync(cb), b, b)
    \/ \E t \in Tasks : QueueAdmit(t)
    \/ \E t \in Tasks : QueueInvoke(t)
    \/ \E t \in Tasks : WorkProcessing(t)

PathSpec == LocalInit /\ [][PathNext]_vars

\* The Generator under the rate limiter: generateVideo(..., token) asks the
\* SessionRateLimiter for admission of its token before the upstream call and
\* releases it afterwards.  Task t makes the acquire() call t of the limiter; the
\* call OtherCaller is made by a request outside the TaskQueue (the sync path).

\* const token = _.sample(tokens): the credential task t was submitted with.
tokenOf(t) == IF t = 1 THEN "a" ELSE "b"

OtherCaller == MaxCalls

\* generateVideo of task t calls acquire(token).
GenAcquire(t) ==
    /\ work[t] = "generating"
    /\ Acquire(t, tokenOf(t))

\* The upstream call of task t, made while it holds the admission; ok: neither it
\* nor the formatting of the result throws.
GenRun(t, ok) ==
    /\ pc[t] = "heldLocal"
    /\ Generate(t, ok)

\* generateVideo of task t releases the admission.
GenRelease(t) ==
    /\ work[t] \in {"succeeded", "threw"}
    /\ ReleaseLocal(t)

\* Tasks under the global bound of the TaskQueue and the per-credential limiter,
\* next to a caller outside the queue.  No wait reaches its deadline here.
PoolNext ==
    \/ \E t \in Tasks : Submit(t, Plain("undefined"), TRUE, TRUE)
    \/ \E t \in Tasks : QueueAdmit(t)
    \/ \E t \in Tasks : QueueInvoke(t)
    \/ \E t \in Tasks : WorkProcessing(t)
    \/ \E t \in Tasks : GenAcquire(t)
    \/ \E t \in Tasks, ok \in BOOLEAN : GenRun(t, ok)
    \/ \E t \in Tasks : GenRelease(t)
    \/ \E t \in Tasks : pc[t] = "idle" /\ WorkReport(t)
    \/ \E t \in Tasks : WorkNotify(t, TRUE)
    \/ \E t \in Tasks : QueueFinish(t, TRUE)
    \/ \E s \in Creds : Acquire(OtherCaller, s)
    \/ ReleaseLocal(OtherCaller)
    \/ \E s \in Creds : RetryTimer(s)
    \/ Tick

PoolSpec == LocalInit /\ [][PoolNext]_vars

\* Callers that pass the credential or the empty sessionId, keep the release
\* closure after calling it and may call it again.  The store, when one is
\* configured, answers every call: connect() succeeds and redis.eval never rejects.
ClientNext ==
    \/ \E c \in Calls, s \in Primary \cup {""} : Acquire(c, s)
    \/ ConnectOk
    \/ \E c \in Calls : AcquireDistributed(c, FALSE)
    \/ \E c \in Calls : ReleaseDistributedKept(c, FALSE)
    \/ \E c \in Calls : ReleaseDistributedAgain(c)
    \/ \E c \in Calls : ReleaseLocalKept(c)
    \/ \E c \in Calls : ReleaseLocalAgain(c)
    \/ \E c \in Calls : DropRelease(c)
    \/ \E c \in Calls : ReleaseNoop(c)
    \/ \E c \in Calls : Forget(c)
    \/ \E c \in Calls : WaiterTimeout(c)
    \/ \E s \in Creds : RetryTimer(s)
    \/ Tick

ClientSpec == Init /\ [][ClientNext]_vars

\* Callers that pass either credential to an enabled limiter configured for local
\* mode.
CredNext ==
    \/ \E c \in Calls, s \in Creds : Acquire(c, s)
    \/ \E c \in Calls : ReleaseLocal(c)
    \/ \E c \in Calls : Forget(c)
    \/ \E c \in Calls : WaiterTimeout(c)
    \/ \E s \in Creds : RetryTimer(s)
    \/ Tick

CredSpec == LocalInit /\ [][CredNext]_vars

------------------------------------------------------------------------------
\* Properties

QueueIn(bs, s) == IF bs[s] = <<>> THEN <<>> ELSE bs[s][1].queue
ActiveIn(bs, s) == IF bs[s] = <<>> THEN 0 ELSE bs[s][1].active
TimerIn(bs, s) == IF bs[s] = <<>> THEN NoTimer ELSE bs[s][1].timer

\* Acquisitions of credential s granted and not yet released.
Unreleased(s) == {c \in Calls : sid[c] = s /\ pc[c] \in {"heldLocal", "heldDist"}}

\* Holders of a distributed grant of s that are alive and will release it.
LiveHeld(s) == {c \in Calls : sid[c] = s /\ pc[c] = "heldDist"}

\* Callers suspended in the loop of acquireDistributed for s.
DistWaiting(s) == {c \in Calls : sid[c] = s /\ pc[c] = "dist" /\ sleep[c] > 0}

\* The step takes call c into acquireLocal.
EntersLocal(c) ==
    /\ pc[c] \in {"idle", "awaitClient", "dist"}
    /\ pc'[c] \in {"queued", "heldLocal", "failed"}

\* C1: for every credential, the acquisitions granted and not yet released
\* (local, distributed and fallback grants counted together) number at most
\* maxConcurrent.
C1_AtMostMaxConcurrent ==
    \A s \in Creds : Cardinality(Unreleased(s)) <= MaxConcurrent

\* C2: a local grant for a credential starts at least minIntervalMs after the
\* previous local grant for that credential.
C2_MinSpacing ==
    [][\A c \in Calls :
         (pc[c] # "heldLocal" /\ pc'[c] = "heldLocal")
            => sinceLocalGrant[sid'[c]] >= MinIntervalMs]_vars

\* C3: a local wait queue never holds more than maxQueuePerSession waiters; an
\* acquire reaching acquireLocal while the queue holds that many is rejected with
\* the overflow error, is not enqueued, and leaves the bucket unchanged.
C3_QueueBounded ==
    /\ [](\A s \in Creds : Len(QueueIn(buckets, s)) <= MaxQueuePerSession)
    /\ [][\A c \in Calls :
            (EntersLocal(c) /\ Len(QueueIn(buckets, sid'[c])) >= MaxQueuePerSession)
               => /\ pc'[c] = "failed"
                  /\ err'[c] = "overflow"
                  /\ buckets'[sid'[c]] = buckets[sid'[c]]]_vars

C3_Witness ==
    \E c \in Calls :
        /\ pc[c] = "failed"
        /\ err[c] = "overflow"
        /\ Len(QueueIn(buckets, sid[c])) = MaxQueuePerSession
        /\ ~InSeq(c, QueueIn(buckets, sid[c]))

\* C4: a queued waiter fails only when its own timeout is due, with the timeout
\* error; the step removes it from its queue and leaves every other waiter queued,
\* in the same order, with its own deadline, and the active count unchanged.  In a
\* limiter configured for local mode the timeout is due queueTimeoutMs after the
\* acquire call.
C4_TimeoutRemovesOnlyWaiter ==
    /\ [](\A c \in Calls :
            (pc[c] = "queued" /\ ~useRedisDistributed)
               => elapsed[c] + left[c] = QueueTimeoutMs)
    /\ [][\A c \in Calls :
            (pc[c] = "queued" /\ pc'[c] = "failed")
               => /\ left[c] = 0
                  /\ err'[c] = "timeout"
                  /\ QueueIn(buckets', sid[c]) = Without(QueueIn(buckets, sid[c]), c)
                  /\ ActiveIn(buckets', sid[c]) = ActiveIn(buckets, sid[c])
                  /\ \A d \in Calls \ {c} :
                       pc[d] = "queued" => pc'[d] = "queued" /\ left'[d] = left[d]]_vars

\* A waiter has timed out while a later waiter of the same credential is queued,
\* in a limiter configured for local mode.
C4_Witness ==
    \E c, d \in Calls :
        /\ ~useRedisDistributed
        /\ c # d
        /\ sid[c] = sid[d]
        /\ pc[c] = "failed"
        /\ err[c] = "timeout"
        /\ pc[d] = "queued"
        /\ InSeq(d, QueueIn(buckets, sid[d]))

\* C5: a distributed acquire whose wait deadline has passed without a grant ends
\* as failed with the timeout error.
C5_DistributedTimeoutFails ==
    [][\A c \in Calls :
         (pc[c] = "dist" /\ left[c] = 0 /\ pc'[c] # "dist")
            => pc'[c] = "failed" /\ err'[c] = "timeout"]_vars

\* C6: no acquire call is still unsettled later than queueTimeoutMs after the call.
C6_SettlesWithinTimeout ==
    \A c \in Calls : pc[c] \in Pending => elapsed[c] <= QueueTimeoutMs

\* C7: at most maxQueuePerSession callers are suspended in a distributed acquire of
\* one credential.
C7_DistributedWaitersBounded ==
    \A s \in Creds : Cardinality(DistWaiting(s)) <= MaxQueuePerSession

\* C8: when redis.eval of the acquire script rejects before the deadline, the call
\* goes through acquireLocal: the bucket, the call's position and its error are
\* those acquireLocal produces, and the only error it can end with is the local
\* overflow error.
C8_FallbackToLocal ==
    [][\A c \in Calls :
         (pc[c] = "dist" /\ left[c] > 0 /\ pc'[c] \notin {"dist", "heldDist"})
            => /\ buckets' = AcquireLocal(Local, c, sid[c]).buckets
               /\ pc' = AcquireLocal(Local, c, sid[c]).pc
               /\ err' = AcquireLocal(Local, c, sid[c]).err
               /\ pc'[c] \in {"queued", "heldLocal", "failed"}
               /\ pc'[c] = "failed" => err'[c] = "overflow"]_vars

\* A call is queued locally at the instant of its acquire() (elapsed = 0) although
\* the store holds a grant made at an earlier instant: the client was connected when
\* the call started, so it reached acquireLocal through the catch, before its
\* deadline.
C8_Witness ==
    \E c \in Calls :
        /\ pc[c] = "queued"
        /\ elapsed[c] = 0
        /\ left[c] = QueueTimeoutMs
        /\ inflight[sid[c]] # <<>>
        /\ inflightPttl[sid[c]] < InflightTtlMs

\* C9: the stored inflight counter is absent or between 1 and maxConcurrent, and a
\* stored counter carries a TTL.
C9_InflightRange ==
    \A s \in Creds :
        \/ inflight[s] = <<>> /\ inflightPttl[s] = 0
        \/ /\ inflight[s] # <<>>
           /\ inflight[s][1] >= 1
           /\ inflight[s][1] <= MaxConcurrent
           /\ inflightPttl[s] >= 1

C9_Witness ==
    \E s \in Creds :
        /\ inflight[s] = <<MaxConcurrent>>
        /\ DistWaiting(s) # {}
        /\ Cardinality(LiveHeld(s)) < MaxConcurrent

\* C10: a grant whose holder died eventually stops counting: whenever the stored
\* counter exceeds the number of live holders, it eventually no longer does.
C10_CrashedGrantExpires ==
    \A s \in Creds :
        (Get(inflight[s]) > Cardinality(LiveHeld(s)))
            ~> (Get(inflight[s]) <= Cardinality(LiveHeld(s)))

\* Holders of a local grant of s whose release closure has not been called.
LocalHeld(s) == {c \in Calls : sid[c] = s /\ pc[c] = "heldLocal"}

\* C11: a release closure takes effect once, however often it is called.  The
\* active count of a bucket is the number of local grants whose release has not
\* been called; the stored inflight counter goes down only by one, in the step of
\* the first call of a distributed release closure, or when its TTL runs out.
C11_ReleaseSingleUse ==
    /\ [](\A s \in Creds : ActiveIn(buckets, s) = Cardinality(LocalHeld(s)))
    /\ [][\A s \in Creds :
            Get(inflight'[s]) < Get(inflight[s])
               => \/ /\ Get(inflight'[s]) = Get(inflight[s]) - 1
                     /\ \E c \in Calls :
                          /\ sid[c] = s
                          /\ pc[c] = "heldDist"
                          /\ pc'[c] # "heldDist"
                  \/ /\ pc' = pc
                     /\ inflightPttl[s] = 1
                     /\ inflight'[s] = <<>>]_vars

\* A caller holds a release closure it has called while another grant of the same
\* credential is unreleased: a second decrement would show.
C11_Witness ==
    \E c, d \in Calls :
        /\ c # d
        /\ sid[c] = sid[d]
        /\ \/ /\ pc[c] = "doneLocal"
              /\ pc[d] = "heldLocal"
              /\ ActiveIn(buckets, sid[c]) = 1
           \/ /\ pc[c] = "doneDist"
              /\ pc[d] = "heldDist"
              /\ inflight[sid[c]] = <<1>>

\* The step is an acquire() of call c that takes the pass-through of a disabled
\* limiter or of the empty sessionId, or the call of the release it returned.
PassThrough(c) ==
    \/ pc[c] = "idle" /\ pc'[c] # "idle" /\ (~enabled \/ sid'[c] = "")
    \/ pc[c] = "heldNoop" /\ pc'[c] # "heldNoop"

\* C12: with the limiter disabled or the sessionId empty, acquire returns its
\* release in the same step, and neither that step nor the call of the release
\* changes a bucket, a stored key, the client connection, or the position,
\* deadline or error of any other call.
C12_PassThroughNoEffect ==
    [][\A c \in Calls :
         PassThrough(c)
            => /\ pc[c] = "idle" => pc'[c] = "heldNoop"
               /\ pc[c] = "heldNoop" => pc'[c] = "idle"
               /\ buckets' = buckets
               /\ redisVars' = redisVars
               /\ redis' = redis
               /\ initWaiters' = initWaiters
               /\ sinceLocalGrant' = sinceLocalGrant
               /\ \A d \in Calls \ {c} :
                    /\ pc'[d] = pc[d]
                    /\ left'[d] = left[d]
                    /\ sleep'[d] = sleep[d]
                    /\ err'[d] = err[d]]_vars

\* An enabled limiter has handed out a pass-through release for the empty
\* sessionId while a grant is held and a waiter is queued or polling.
C12_Witness ==
    /\ enabled
    /\ \E c, d, e \in Calls :
         /\ pc[c] = "heldNoop"
         /\ sid[c] = ""
         /\ pc[d] \in {"queued", "dist"}
         /\ pc[e] \in {"heldLocal", "heldDist"}

\* C13: a credential has a bucket in this.buckets exactly when its active count is
\* above 0, its queue is non-empty or its retry timer is pending: a bucket in the
\* registry is never idle, and every local holder and every queued waiter has its
\* bucket in the registry, the holder counted in active and the waiter in queue.
C13_BucketCollected ==
    /\ \A s \in Creds :
         buckets[s] # <<>>
            => \/ buckets[s][1].active > 0
               \/ Len(buckets[s][1].queue) > 0
               \/ buckets[s][1].timer # NoTimer
    /\ \A c \in Calls :
         /\ pc[c] = "heldLocal" => ActiveIn(buckets, sid[c]) > 0
         /\ pc[c] = "queued" => InSeq(c, QueueIn(buckets, sid[c]))
    /\ \A s \in Creds :
         /\ ActiveIn(buckets, s) > 0 => LocalHeld(s) # {}
         /\ \A i \in 1..Len(QueueIn(buckets, s)) : pc[QueueIn(buckets, s)[i]] = "queued"

\* The bucket of a credential is gone from the registry although a grant of that
\* credential started less than minIntervalMs ago.
C13_Witness ==
    \E s \in Creds :
        /\ buckets[s] = <<>>
        /\ sinceLocalGrant[s] < MinIntervalMs

\* C14: a bucket with a waiter and an active count below maxConcurrent has its
\* retry timer pending, and a pending timer is due no later than the instant the
\* spacing after the last grant is over.
C14_RetryTimerPending ==
    \A s \in Creds :
        buckets[s] # <<>>
           => LET b == buckets[s][1] IN
              /\ (Len(b.queue) > 0 /\ b.active < MaxConcurrent) => b.timer # NoTimer
              /\ b.timer # NoTimer => b.timer >= 0 /\ b.timer <= MinIntervalMs - b.age

\* A waiter is blocked by spacing alone, with the retry timer running.
C14_Witness ==
    \E s \in Creds :
        /\ buckets[s] # <<>>
        /\ Len(buckets[s][1].queue) > 0
        /\ buckets[s][1].active > 0
        /\ buckets[s][1].active < MaxConcurrent
        /\ buckets[s][1].timer > 0

\* The step grants call c locally.
GrantedLocal(c) == pc[c] # "heldLocal" /\ pc'[c] = "heldLocal"

\* The step is the first call of the release closure of local holder d.
ReleasedLocal(d) == pc[d] = "heldLocal" /\ pc'[d] # "heldLocal"

\* C15: a call is granted locally while the bucket's active count is at
\* maxConcurrent only in the step in which a holder of that credential releases;
\* a release with a waiter queued grants the head waiter in the same step when the
\* spacing since the last grant is over, and otherwise leaves the retry timer
\* pending; the retry timer, firing with a waiter queued, capacity free and the
\* spacing over, grants the head waiter; and no waiter stays queued with capacity
\* free and the spacing over unless that timer is due at this very instant.
C15_GrantAfterRelease ==
    /\ [](\A s \in Creds :
            (/\ Len(QueueIn(buckets, s)) > 0
             /\ ActiveIn(buckets, s) < MaxConcurrent
             /\ buckets[s][1].age >= MinIntervalMs) => TimerIn(buckets, s) = 0)
    /\ [][\A c \in Calls :
            (GrantedLocal(c) /\ ActiveIn(buckets, sid'[c]) >= MaxConcurrent)
               => \E d \in Calls \ {c} : sid[d] = sid'[c] /\ ReleasedLocal(d)]_vars
    /\ [][\A d \in Calls :
            (ReleasedLocal(d) /\ Len(QueueIn(buckets, sid[d])) > 0)
               => LET s == sid[d]
                      w == Head(QueueIn(buckets, s))
                  IN IF buckets[s][1].age >= MinIntervalMs
                     THEN pc'[w] = "heldLocal"
                     ELSE /\ pc'[w] = "queued"
                          /\ TimerIn(buckets', s) # NoTimer]_vars
    /\ [][\A s \in Creds :
            (/\ RetryTimer(s)
             /\ Len(QueueIn(buckets, s)) > 0
             /\ ActiveIn(buckets, s) < MaxConcurrent
             /\ buckets[s][1].age >= MinIntervalMs)
               => pc'[Head(QueueIn(buckets, s))] = "heldLocal"]_vars

\* A waiter has been queued for some time behind maxConcurrent holders of its
\* credential, the spacing since the last grant is over and its timeout is not
\* due: the next release grants it.
C15_Witness ==
    \E w \in Calls :
        /\ pc[w] = "queued"
        /\ QueueIn(buckets, sid[w]) # <<>>
        /\ Head(QueueIn(buckets, sid[w])) = w
        /\ ActiveIn(buckets, sid[w]) = MaxConcurrent
        /\ Cardinality(LocalHeld(sid[w])) = MaxConcurrent
        /\ buckets[sid[w]][1].age >= MinIntervalMs
        /\ left[w] > 0
        /\ left[w] < QueueTimeoutMs

\* C16: in a limiter configured for local mode, the queue of a bucket holds its
\* waiters in the order of their acquire calls, and a call is granted while
\* another waiter of the credential stays queued only if it was queued ahead of
\* that waiter and called acquire no later.
C16_GrantsInCallOrder ==
    /\ [](~useRedisDistributed =>
            \A s \in Creds : \A i, j \in 1..Len(QueueIn(buckets, s)) :
                i < j => elapsed[QueueIn(buckets, s)[i]] >= elapsed[QueueIn(buckets, s)[j]])
    /\ [][~useRedisDistributed =>
            \A c, d \in Calls :
              (/\ GrantedLocal(c)
               /\ d # c
               /\ sid[d] = sid'[c]
               /\ pc[d] = "queued"
               /\ pc'[d] = "queued")
                 => /\ pc[c] = "queued"
                    /\ IndexOf(QueueIn(buckets, sid[d]), c)
                         < IndexOf(QueueIn(buckets, sid[d]), d)
                    /\ elapsed[c] >= elapsed[d]]_vars

\* A grant has been issued at this instant while a waiter that has been queued for
\* some time stays queued: it went to a waiter ahead of it.
C16_Witness ==
    \E d \in Calls :
        /\ ~useRedisDistributed
        /\ pc[d] = "queued"
        /\ elapsed[d] >= 1
        /\ sinceLocalGrant[sid[d]] = 0

\* The step is an event of credential x: an acquire call for x (granted, queued
\* or rejected), a release, a waiter timeout or a rejection seen by a caller of x,
\* or the retry timer of the bucket of x.
EventOf(x) ==
    \/ \E c \in Calls : Acquire(c, x)
    \/ \E c \in Calls :
          /\ sid[c] = x
          /\ \/ ReleaseLocal(c)
             \/ WaiterTimeout(c)
             \/ Forget(c)
    \/ RetryTimer(x)

LegalEdges ==
    { <<"absent", "pending">>,
      <<"pending", "queued">>, <<"pending", "processing">>, <<"queued", "processing">>,
      <<"processing", "completed">>, <<"processing", "failed">>,
      <<"pending", "cancelled">>, <<"queued", "cancelled">> }

\* C18: the status of a task changes only along pending -> (queued ->) processing
\* -> completed | failed, or pending / queued -> cancelled; completed, failed and
\* cancelled are never left.
C18_StatusMonotonic ==
    [][\A t \in Tasks :
         taskStore'[t].status # taskStore[t].status
            => <<taskStore[t].status, taskStore'[t].status>> \in LegalEdges]_vars

\* C19: once work has reported, the record of a task whose generation succeeded is
\* completed with result set and error unset, and the record of a task whose
\* generation failed is failed with error set and result unset; a record never has
\* both result and error set, and each is written at most once.
C19_OutcomeRecorded ==
    \A t \in Tasks :
        /\ ~(taskStore[t].result = "set" /\ taskStore[t].error # "unset")
        /\ writes[t].result <= 1
        /\ writes[t].error <= 1
        /\ work[t] \in {"reported", "done"}
             => IF writes[t].result > 0
                THEN taskStore[t] =
                       [status |-> "completed", result |-> "set", error |-> "unset"]
                ELSE taskStore[t] =
                       [status |-> "failed", result |-> "unset", error |-> "generator"]

\* The step ends a cancel request for task t.
CancelEnds(t) == cancelSeen[t] # "none" /\ cancelSeen'[t] = "none"

\* C20: a cancel request succeeds exactly when the status of the task is pending or
\* queued, and then sets it to cancelled; a cancel request on any other status is
\* rejected and leaves the record unchanged; the queue does not invoke work for a
\* task after a cancel request for it has succeeded.
C20_CancelOnlyBeforeStart ==
    [][\A t \in Tasks :
         /\ CancelEnds(t)
              => IF taskStore[t].status \in {"pending", "queued"}
                 THEN cancelOk'[t] /\ taskStore'[t].status = "cancelled"
                 ELSE cancelOk'[t] = cancelOk[t] /\ taskStore'[t] = taskStore[t]
         /\ (work[t] # "invoked" /\ work'[t] = "invoked") => ~cancelOk[t]]_vars

\* Positions of work after its first step: the record has been marked processing
\* by work, and the Generator is called next or has been called.
Begun ==
    {"generating", "succeeded", "threw", "reported", "returned", "rejected", "caught", "done"}

\* C21: a cancel request and the start of work for the same task never both win:
\* in no state has a cancel request for a task reported success while work for
\* that task has begun (marked the task processing or called the Generator).
C21_CancelXorStart ==
    \A t \in Tasks : ~(cancelOk[t] /\ work[t] \in Begun)

\* Positions of a unit of work that has started and not finished: it holds a
\* worker slot of the TaskQueue.
Started ==
    {"admitted", "invoked", "generating", "succeeded", "threw", "reported", "returned",
     "rejected", "caught"}

Raised(t) == work[t] = "done" /\ taskStore[t].error = "store"

\* C22: the TaskQueue never runs more units of work than its global concurrency
\* bound, its running counter equals the number of units started and not yet
\* finished, and the counter changes only by one: up when a unit starts, down when
\* a unit ends, whether work returned or raised an exception.
C22_RunningCounter ==
    /\ [](running <= QueueConcurrency)
    /\ [](running = Cardinality({t \in Tasks : work[t] \in Started}))
    /\ [][running' # running
            => \E t \in Tasks :
                 \/ /\ work[t] \notin Started
                    /\ work'[t] \in Started
                    /\ running' = running + 1
                 \/ /\ work[t] \in {"returned", "caught"}
                    /\ work'[t] = "done"
                    /\ running' = running - 1]_vars

\* A unit of work has ended in an exception and its slot is held by the next unit.
C22_Witness ==
    \E t, u \in Tasks : Raised(t) /\ work[u] \in Started /\ running = QueueConcurrency

Terminal == {"completed", "failed", "cancelled"}

\* C23: an exception of a unit of work ends in the failed state of its task with
\* the exception's message as error: the catch block of work records the message
\* of what the try block threw, the TaskQueue records the message of a rejection
\* of work, and the record is not changed afterwards; the units of work enqueued
\* for other tasks are still started and run to a terminal status.
C23_FailureContained ==
    /\ [][\A t \in Tasks :
            /\ (work[t] = "threw" /\ work'[t] # "threw")
                 => taskStore'[t].status = "failed" /\ taskStore'[t].error = "generator"
            /\ (work[t] = "rejected" /\ work'[t] # "rejected")
                 => taskStore'[t].status = "failed" /\ taskStore'[t].error = "store"
            /\ work[t] \in {"caught", "done"} => taskStore'[t] = taskStore[t]]_vars
    /\ \A t, u \in Tasks :
         (t # u /\ work[t] = "rejected" /\ work[u] = "enqueued")
            ~> (work[u] = "done" /\ taskStore[u].status \in Terminal)

\* The queue has caught the rejection of one unit of work while another unit
\* waits for the worker slot.
C23_Witness ==
    \E t, u \in Tasks :
        /\ work[t] = "caught"
        /\ taskStore[t].status = "failed"
        /\ taskStore[t].error = "store"
        /\ work[u] = "enqueued"

\* C24: once work has reported the outcome, nothing that happens while the caller
\* is notified (the re-read of the record, the webhook dispatches, their
\* failures) changes the task record: a completed task stays completed with its
\* result and without error, and a failed task keeps its error.
C24_NotifyKeepsRecord ==
    [][\A t \in Tasks :
         work[t] \in {"reported", "returned", "rejected", "caught"}
            => taskStore'[t] = taskStore[t]]_vars

\* C25: when the unit of work of a task with a callback_url has ended, the
\* Generator having succeeded and the endpoint answering 2xx to the first POST,
\* exactly one webhook POST has been made for the task, and never more than one
\* before.
C25_OneWebhookPost ==
    \A t \in Tasks :
        (callback[t] = "up" /\ writes[t].result > 0 /\ writes[t].error = 0)
            => /\ posts[t] <= 1
               /\ work[t] = "done" => posts[t] = 1

\* C26: one webhook dispatch makes at most 4 POSTs, none after the first 2xx
\* answer, and the 2nd, 3rd and 4th POST come 5 s, 15 s and 30 s after the one
\* before; an endpoint that answers 500, 500, 200 has received exactly 3 POSTs and
\* the dispatch is over.
C26_WebhookRetries ==
    /\ [](Len(answers) <= MaxAttempts)
    /\ [](RetryDelays = <<5 \div HookUnitS, 15 \div HookUnitS, 30 \div HookUnitS>>)
    /\ []((answers = <<"500", "500", "2xx">>) => hookPc = "delivered")
    /\ [][Len(answers') > Len(answers)
            => /\ Len(answers') = Len(answers) + 1
               /\ \A i \in 1..Len(answers) : answers[i] # "2xx"
               /\ Len(answers) >= 1
                    => sincePost * HookUnitS
                         = <<5, 15, 30>>[Len(answers)]]_vars
    /\ [][(hookPc \in {"delivered", "gaveUp"}) => (answers' = answers)]_vars

\* The endpoint answered 500, 500, 200 and the dispatch is over.
C26_Witness ==
    /\ answers = <<"500", "500", "2xx">>
    /\ hookPc = "delivered"

\* A submission that fails validation, in the words of the error taxonomy: a
\* field validator fails, more input files or URLs than the mode allows, an upload
\* field the omni mode does not accept, or omni mode without any material.
Malformed(r) ==
    \/ r.prompt # "text"
    \/ r.duration \notin {0} \cup (4..15)
    \/ r.functionMode \notin {"undefined", "first_last_frames", "omni_reference"}
    \/ r.async \notin {"undefined", "true", "false", "'true'", "'false'"}
    \/ r.callback_url \notin {"undefined", "http"}
    \/ r.functionMode # "omni_reference"
         /\ (r.filePaths > 2 \/ r.omniFiles + r.otherFiles > 2)
    \/ r.functionMode = "omni_reference"
         /\ \/ r.filePaths > 9
            \/ r.omniFiles > 9
            \/ r.otherFiles > 0
            \/ r.filePaths = 0 /\ r.omniFiles = 0 /\ r.materialUrls = 0

\* C27: the route rejects every malformed submission, async or not, and a
\* rejected submission has no task record, nothing enqueued and no Generator
\* call: the step that rejects it changes none of them.
C27_InvalidCreatesNothing ==
    /\ [](\A r \in Requests : Malformed(r) <=> Validate(r) \in Rejections)
    /\ [](\A t \in Tasks :
            resp[t] \in Rejections
               => taskStore[t] = NoTask /\ work[t] = "none" /\ genCalls[t] = 0)
    /\ [][\A t \in Tasks :
            (resp[t] = "none" /\ resp'[t] \in Rejections)
               => taskStore' = taskStore /\ work' = work /\ genCalls' = genCalls]_vars

\* Submissions have been rejected by a file-count check and by the omni checks
\* while another submission was accepted as a task.
C27_Witness ==
    /\ \E r \in Requests : isAsync(r) /\ Validate(r) = "noMaterial"
    /\ \E r \in Requests : isAsync(r) /\ Validate(r) = "omniField"
    /\ \E t, u \in Tasks :
         /\ resp[t] \in {"paths", "uploads", "omniField", "noMaterial"}
         /\ resp[u] = "pending"
         /\ work[u] = "generating"

\* C28: the Generator is called at most once for an async task, and only by work
\* between marking the task processing and reporting; when the call fails, the
\* next step of work records the task as failed with the provider's error
\* message, and no further call is made for the task.
C28_GeneratorOnce ==
    /\ [](\A t \in Tasks : genCalls[t] <= 1)
    /\ [](\A t \in Tasks :
            genCalls[t] = (IF work[t] \in Begun \ {"generating"} THEN 1 ELSE 0))
    /\ [][\A t \in Tasks :
            /\ genCalls'[t] # genCalls[t]
                 => genCalls[t] = 0 /\ genCalls'[t] = 1 /\ work[t] = "generating"
            /\ (work[t] = "threw" /\ work'[t] # "threw")
                 => /\ work'[t] = "reported"
                    /\ taskStore'[t].status = "failed"
                    /\ taskStore'[t].error = "generator"
                    /\ taskStore'[t].result = "unset"]_vars

\* The unit of work of a task whose generation failed has ended after one call.
C28_Witness ==
    \E t \in Tasks :
        /\ work[t] = "done"
        /\ taskStore[t].status = "failed"
        /\ taskStore[t].error = "generator"
        /\ genCalls[t] = 1

\* C30: the step that answers an async submission with {task_id, status pending}
\* creates the one record of that task with status pending and enqueues its id,
\* before any step of the work; no other step creates a record or enqueues an id.
\* The step that answers a sync submission calls the Generator, creates no record
\* and enqueues nothing.  Valid requests with async true are answered as async
\* submissions, valid requests without async as sync submissions.
C30_SubmissionPaths ==
    /\ [](\A t \in Tasks :
            /\ resp[t] = "pending" <=> taskStore[t] # NoTask
            /\ resp[t] = "pending" <=> work[t] # "none"
            /\ resp[t] \in {"result", "error"} => genCalls[t] = 1)
    /\ [][\A t \in Tasks :
            /\ (resp[t] = "none" /\ resp'[t] = "pending")
                 => /\ taskStore'[t].status = "pending"
                    /\ work'[t] = "enqueued"
                    /\ genCalls' = genCalls
                    /\ \A u \in Tasks \ {t} :
                         taskStore'[u] = taskStore[u] /\ work'[u] = work[u]
            /\ (resp[t] = "none" /\ resp'[t] \in {"result", "error"})
                 => taskStore' = taskStore /\ work' = work /\ genCalls'[t] = 1
            /\ taskStore[t] = NoTask /\ taskStore'[t] # NoTask => resp[t] = "none"
            /\ work'[t] = "enqueued" /\ work[t] # "enqueued" => resp[t] = "none"
            /\ \A cb \in {"undefined", "http"}, b \in BOOLEAN :
                 /\ Submit(t, Plain(cb), b, b) => resp'[t] = "pending"
                 /\ Submit(t, PlainSync(cb), b, b) => resp'[t] \in {"result", "error"}]_vars

\* One submission was answered on the sync path and another on the async path,
\* whose work has not run.
C30_Witness ==
    \E t, u \in Tasks :
        /\ resp[t] = "result"
        /\ taskStore[t] = NoTask
        /\ resp[u] = "pending"
        /\ taskStore[u].status = "pending"
        /\ work[u] = "enqueued"

\* Every worker slot is held by a task that waits in the limiter queue of a
\* credential other than s.
SlotsWaitFor(s) ==
    /\ running = QueueConcurrency
    /\ \A t \in Tasks : work[t] \in Started => pc[t] = "queued" /\ sid[t] # s

\* The limiter would admit credential s at once: it has no bucket, so nothing is
\* active or queued for it and its spacing has passed.
WouldAdmit(s) == buckets[s] = <<>>

\* C29: no task whose credential the limiter would admit waits for a worker slot
\* of the TaskQueue while every slot is held by tasks of other credentials that
\* wait for the admission of the limiter.
C29_NoCrossCredentialBlocking ==
    \A u \in Tasks :
        ~(/\ work[u] = "enqueued"
          /\ taskStore[u].status = "pending"
          /\ WouldAdmit(tokenOf(u))
          /\ SlotsWaitFor(tokenOf(u)))

------------------------------------------------------------------------------
\* Calls of credential s that the step grants from the bucket.
GrantedInStep(s) ==
    {c \in Calls : pc[c] # "heldLocal" /\ pc'[c] = "heldLocal" /\ sid'[c] = s}

\* Calls of credential s whose release closure is called for the first time in
\* the step.
FirstReleasedInStep(s) ==
    {c \in Calls : pc[c] = "heldLocal" /\ pc'[c] # "heldLocal" /\ sid[c] = s}

\* C31: in a limiter configured for local mode the active count of a bucket is the
\* number of grants from that bucket whose release has not been called and lies
\* between 0 and maxConcurrent; a step raises it only by granting, lowers it only
\* by the first call of a release closure, and changes it by the number of grants
\* less the number of first releases of the step.
C31_ActiveCountsGrants ==
    /\ [](~useRedisDistributed =>
            \A s \in Creds :
                /\ ActiveIn(buckets, s) = Cardinality(LocalHeld(s))
                /\ ActiveIn(buckets, s) >= 0
                /\ ActiveIn(buckets, s) <= MaxConcurrent)
    /\ [][~useRedisDistributed =>
            \A s \in Creds :
                /\ ActiveIn(buckets', s) > ActiveIn(buckets, s)
                      => GrantedInStep(s) # {}
                /\ ActiveIn(buckets', s) < ActiveIn(buckets, s)
                      => FirstReleasedInStep(s) # {}
                /\ ActiveIn(buckets', s) =
                      ActiveIn(buckets, s) + Cardinality(GrantedInStep(s))
                                           - Cardinality(FirstReleasedInStep(s))]_vars

\* In local mode a caller holds a release closure it has already called while
\* another grant of the bucket is unreleased and a waiter is queued behind it.
C31_Witness ==
    \E c, d \in Calls :
        /\ ~useRedisDistributed
        /\ enabled
        /\ c # d
        /\ sid[c] = sid[d]
        /\ pc[c] = "doneLocal"
        /\ pc[d] = "heldLocal"
        /\ ActiveIn(buckets, sid[c]) >= 1
        /\ Len(QueueIn(buckets, sid[c])) >= 1

------------------------------------------------------------------------------
\* Calls of credential s that the step grants through the acquire script.
DistGrantedInStep(s) ==
    {c \in Calls : sid[c] = s /\ pc[c] = "dist" /\ pc'[c] = "heldDist"}

\* C32: a step grants at most one distributed acquire of a credential and updates
\* the admission record in that step: the grant is made only when the stored
\* next-allowed-at is not in the future, it sets next-allowed-at to its timestamp
\* plus minIntervalMs and raises inflight by one, and its timestamp is at least
\* minIntervalMs after the timestamp of the previous distributed grant.
C32_DistributedGrantSpacing ==
    [][\A s \in Creds :
         DistGrantedInStep(s) # {}
            => /\ Cardinality(DistGrantedInStep(s)) = 1
               /\ nextAllowedIn[s] = 0
               /\ nextAllowedIn'[s] = MinIntervalMs
               /\ Get(inflight'[s]) = Get(inflight[s]) + 1
               /\ sinceDistGrant[s] >= MinIntervalMs
               /\ sinceDistGrant'[s] = 0]_vars

\* Two distributed grants of one credential are unreleased, the later one made at
\* the current instant, while a third acquirer run at this instant was denied and
\* sleeps.
C32_Witness ==
    \E c, d, e \in Calls :
        /\ c # d
        /\ sid[c] = sid[d]
        /\ pc[c] = "heldDist"
        /\ pc[d] = "heldDist"
        /\ inflight[sid[c]] = <<2>>
        /\ sinceDistGrant[sid[c]] = 0
        /\ nextAllowedIn[sid[c]] = MinIntervalMs
        /\ sid[e] = sid[c]
        /\ pc[e] = "dist"
        /\ sleep[e] > 0

------------------------------------------------------------------------------
\* C33: spacing is measured from the start of a grant: the call of a release
\* closure that grants no waiter leaves the start of the last grant that the next
\* acquire of the credential finds (lastStartedAt of the bucket getBucket returns)
\* where it was, and the call of a distributed release leaves next-allowed-at of
\* the admission record where it was.
C33_ReleaseKeepsGrantStart ==
    [][\A c \in Calls :
         /\ (pc[c] = "heldLocal" /\ pc'[c] # "heldLocal"
                                 /\ GrantedInStep(sid[c]) = {})
               => GetBucket(buckets', sid[c]).age = GetBucket(buckets, sid[c]).age
         /\ (pc[c] = "heldDist" /\ pc'[c] # "heldDist")
               => nextAllowedIn' = nextAllowedIn]_vars

------------------------------------------------------------------------------
\* C34: a run of the acquire script is denied exactly when inflight has reached
\* maxConcurrent or next-allowed-at lies in the future, and a denied run leaves the
\* admission record as it was: inflight, next-allowed-at and the TTLs of both keys.
C34_DeniedRunLeavesRecord ==
    [][/\ reply' \in {"concurrency", "interval"} => record' = record
       /\ reply' = "concurrency" => Get(record.inflight) >= MaxConcurrent
       /\ reply' = "interval" => /\ Get(record.inflight) < MaxConcurrent
                                 /\ record.next > 0
       /\ reply' = "ok" => /\ Get(record.inflight) < MaxConcurrent
                           /\ record.next = 0
                           /\ record' # record]_vars

\* A run was denied for concurrency while both keys were part of the way through
\* their TTLs: a refreshed or shortened TTL would show.
C34_Witness ==
    /\ reply = "concurrency"
    /\ record.inflight = <<MaxConcurrent>>
    /\ record.pttl > 0
    /\ record.pttl < InflightTtlMs
    /\ record.nextPttl > 0
    /\ record.nextPttl < IntervalTtlMs

------------------------------------------------------------------------------
\* Calls waiting in some local queue.
Waiters == {c \in Calls : \E s \in Creds : InSeq(c, QueueIn(buckets, s))}

\* C35: a local acquire has one outcome.  A call that holds a grant, or has
\* released it, never becomes a waiter again and never fails; a call that failed
\* (timeout or overflow) keeps its error until the caller has seen it, is in no
\* queue and is never granted; a queued call is settled by a grant or by its own
\* timeout, in whichever order the two become due.
C35_OneOutcome ==
    /\ [](\A c \in Calls :
            /\ pc[c] = "queued" <=> c \in Waiters
            /\ pc[c] = "failed" => err[c] \in {"timeout", "overflow"}
            /\ pc[c] \in {"heldLocal", "doneLocal"} => err[c] = "none")
    /\ [][\A c \in Calls :
            /\ pc[c] \in {"heldLocal", "doneLocal"}
                  => pc'[c] \in {"heldLocal", "doneLocal", "idle"}
            /\ pc[c] = "failed"
                  => /\ pc'[c] \in {"failed", "idle"}
                     /\ pc'[c] = "failed" => err'[c] = err[c]
                     /\ \A s \in Creds : c \notin GrantedInStep(s)
            /\ pc[c] = "queued"
                  => \/ pc'[c] = "queued"
                     \/ pc'[c] = "heldLocal" /\ err'[c] = "none"
                     \/ pc'[c] = "failed" /\ err'[c] = "timeout" /\ left[c] = 0]_vars

\* The timeout of a waiter has fired at an instant at which the retry timer of its
\* bucket, which would have granted it, is still due, in a limiter configured for
\* local mode; another call holds a grant of the bucket.
C35_Witness ==
    \E c \in Calls :
        /\ ~useRedisDistributed
        /\ pc[c] = "failed"
        /\ err[c] = "timeout"
        /\ TimerIn(buckets, sid[c]) = 0
        /\ QueueIn(buckets, sid[c]) = <<>>
        /\ ActiveIn(buckets, sid[c]) < MaxConcurrent
        /\ \E d \in Calls \ {c} : pc[d] = "heldLocal" /\ sid[d] = sid[c]

------------------------------------------------------------------------------
\* C36: the stored inflight counter of a credential is at least the number of
\* distributed grants of that credential whose release has not run.
C36_InflightCoversGrants ==
    \A s \in Creds : Get(inflight[s]) >= Cardinality(LiveHeld(s))

------------------------------------------------------------------------------
\* The step is the end of the work function of task t: the re-read of the record
\* and, if it has a callback_url, sendWebhook.
WorkEnds(t) == work[t] = "reported" /\ work'[t] # "reported"

\* C37: the work function sends the webhook of a task only in its last step,
\* after the terminal status (completed or failed) has been written; what it sends
\* is the record as the store holds it in that step, and it sends nothing for a
\* record without callback_url.
C37_WebhookAfterTerminalWrite ==
    /\ [](\A t \in Tasks :
            work[t] \notin {"returned", "rejected", "caught", "done"}
               => posts[t] = 0 /\ sent[t] = NoTask)
    /\ [][\A t \in Tasks :
            WorkEnds(t)
               => /\ writes[t].result + writes[t].error >= 1
                  /\ taskStore[t].status \in {"completed", "failed"}
                  /\ posts'[t] > posts[t]
                        => callback[t] # "none" /\ sent'[t] = taskStore[t]
                  /\ callback[t] = "none"
                        => posts'[t] = posts[t] /\ sent'[t] = NoTask]_vars

\* One task with a callback_url has ended with its webhook sent, carrying the
\* failed record; another without callback_url has ended with none sent.
C37_Witness ==
    \E t, u \in Tasks :
        /\ callback[t] # "none"
        /\ work[t] \in {"returned", "done"}
        /\ posts[t] > 0
        /\ sent[t].status = "failed"
        /\ sent[t] = taskStore[t]
        /\ callback[u] = "none"
        /\ work[u] \in {"returned", "done"}
        /\ taskStore[u].status = "completed"
        /\ posts[u] = 0

------------------------------------------------------------------------------
Settled == retryPc \in {"returned", "thrown"}

\* The step is a call of operation() that rejects.
Rejected == retryPc = "calling" /\ retryPc' \in {"sleeping", "thrown"}

\* C38: axiosWithRetry calls the operation at most maxRetries + 1 times (4 with
\* the defaults); it returns the result of the first call that resolves; an error
\* that is not a retryable network error is rethrown in the step in which it is
\* caught; after maxRetries retries the error of the last call is rethrown;
\* between a rejected call and the next call at least retryDelayMs pass; once
\* settled it makes no further call; and every call of it settles.
C38_RetryTerminates ==
    /\ [](/\ opCalls <= MaxRetriesOf(options) + 1
          /\ options = NoOptions => opCalls <= 4
          /\ retryPc \in {"calling", "returned", "thrown"} => retries = opCalls - 1
          /\ retryPc = "sleeping" => retries = opCalls
          /\ retryPc = "returned"
                => outcome = [kind |-> "value", call |-> opCalls, error |-> NoError]
          /\ retryPc = "thrown"
                => /\ outcome = [kind |-> "error", call |-> opCalls, error |-> lastError]
                   /\ \/ ~isRetryableNetworkError(lastError)
                      \/ opCalls = MaxRetriesOf(options) + 1)
    /\ [][/\ (Rejected /\ ~isRetryableNetworkError(lastError'))
                => retryPc' = "thrown" /\ outcome'.error = lastError'
          /\ (Rejected /\ retryPc' = "sleeping")
                => /\ isRetryableNetworkError(lastError')
                   /\ opCalls <= MaxRetriesOf(options)
                   /\ opCalls' = opCalls
          /\ (retryPc = "sleeping" /\ retryPc' = "calling")
                => waited >= RetryDelayOf(options) /\ opCalls' = opCalls + 1
          /\ Settled => retryVars' = retryVars]_vars
    /\ (retryPc = "calling") ~> Settled

\* With the default options the fourth call has rejected with a retryable error,
\* one retry delay after the third, and that error was rethrown.
C38_Witness ==
    /\ options = NoOptions
    /\ retryPc = "thrown"
    /\ opCalls = DEFAULT_MAX_RETRIES + 1
    /\ retries = DEFAULT_MAX_RETRIES
    /\ waited = DEFAULT_RETRY_DELAY_MS
    /\ isRetryableNetworkError(lastError)
    /\ outcome.error = lastError

------------------------------------------------------------------------------
\* A limiter configured for distributed mode whose client.connect() resolves or
\* rejects; once connected, the store answers every script run and every holder
\* releases.
ConnectNext ==
    \/ \E c \in Calls, s \in Primary : Acquire(c, s)
    \/ ConnectOk
    \/ ConnectFail
    \/ \E c \in Calls : AcquireDistributed(c, FALSE)
    \/ \E c \in Calls : ReleaseDistributed(c, FALSE)
    \/ \E c \in Calls : ReleaseLocal(c)
    \/ \E c \in Calls : Forget(c)
    \/ \E c \in Calls : WaiterTimeout(c)
    \/ \E s \in Creds : RetryTimer(s)
    \/ Tick

ConnectSpec == ScriptInit /\ [][ConnectNext]_vars

\* C39: callers that find no Redis client share one initialisation.  At most one
\* client.connect() is in progress, and one is in progress exactly while callers
\* await it; an acquire that finds one in progress joins it, one that finds none
\* (and no client) starts one, also after an attempt has failed; when the attempt
\* settles every awaiting caller goes on with its outcome: into acquireDistributed
\* with the client, into acquireLocal without.
C39_SharedInitialisation ==
    /\ [](/\ connecting <= 1
          /\ connecting = 1 <=> initWaiters # <<>>
          /\ \A c \in Calls : pc[c] = "awaitClient" <=> InSeq(c, initWaiters)
          /\ redis = "client" => connecting = 0)
    /\ [][/\ connecting' < connecting
                => \A c \in Calls :
                      pc[c] = "awaitClient"
                         => /\ redis' = "client" => pc'[c] = "dist"
                            /\ redis' = "null"
                                  => pc'[c] \in {"queued", "heldLocal", "failed"}
          /\ \A c \in Calls :
                (pc[c] = "idle" /\ pc'[c] = "awaitClient")
                   => /\ redis = "null"
                      /\ connecting' = 1
                      /\ connecting' > connecting <=> initWaiters = <<>>]_vars

\* An attempt has failed (a caller of a limiter configured for distributed mode
\* holds a local grant and no client exists) and a later attempt is in progress
\* that two callers await.
C39_Witness ==
    \E c, d, e \in Calls :
        /\ useRedisDistributed
        /\ redis = "null"
        /\ pc[c] = "heldLocal"
        /\ d # e
        /\ pc[d] = "awaitClient"
        /\ pc[e] = "awaitClient"
        /\ initWaiters = <<d, e>>
        /\ connecting = 1

====
